---- MODULE Spec2Model ----
(***************************************************************************)
(* libbs: the build-and-cache orchestration of Application.Contribute and  *)
(* the artifact resolution of ArtifactResolver, over a small file system.  *)
(*                                                                         *)
(* A file system is a set of entries.  A path is a sequence of names       *)
(* relative to the root of the tree it lives in (the workspace root        *)
(* a.ApplicationPath, or the layer directory layer.Path).                  *)
(***************************************************************************)
EXTENDS Naturals, Sequences, FiniteSets

VARIABLES
    workspace,   \* the tree under a.ApplicationPath
    layer,       \* the tree under layer.Path
    cached,      \* what the platform kept of the last successful build: [fs, meta]
    cacheJars,   \* the jars under Cache.Path (the build tool's dependency cache)
    config,      \* ArtifactResolver.ConfigurationResolver: artifact / module keys
    arguments,   \* Application.Arguments
    expected,    \* LayerContributor.ExpectedMetadata (the fingerprint)
    bom,         \* a.BOM.Entries
    pc,          \* position of Contribute
    cacheHit,    \* did LayerContributor.Contribute skip the layer function
    artifacts,   \* the slice ResolveMany returned
    idx,         \* loop index of the capture loop / the purge loop
    children,    \* the names ioutil.ReadDir(a.ApplicationPath) returned
    err,         \* "" or the step whose error Contribute returned
    log,         \* the steps Contribute performed in this run, in order
    wsBuilt,     \* the workspace as the last external step left it
    bom0,        \* the BOM entries the caller handed in
    environment, \* BP_INCLUDE_FILES, BP_EXCLUDE_FILES, BP_BOM_LABEL_DISABLED of the run
    input,       \* the arguments of a call of the resolver or of the factory
    output       \* what that call returned

vars == <<workspace, layer, cached, cacheJars, config, arguments, expected, bom,
          pc, cacheHit, artifacts, idx, children, err, log, wsBuilt, bom0,
          environment, input, output>>

\* the variables of a single call of the resolver or of the factory
callVars == <<input, output>>

----------------------------------------------------------------------------
(* Names and file contents.                                                *)

\* every name of the model, in the byte order sort.Strings / ReadDir / Glob use
SortedNames ==
    <<"a.jar", "application.zip", "b.jar", "fixture-marker", "lib", "other",
      "random-file", "random-link", "target", "target-classes">>

Names == {SortedNames[i] : i \in 1..Len(SortedNames)}

\* names that end in ".jar"
JarNames == {"a.jar", "b.jar"}

File(p, d) == [path |-> p, kind |-> "file", data |-> d, target |-> <<>>]
Dir(p) == [path |-> p, kind |-> "dir", data |-> "", target |-> <<>>]
Link(p, t) == [path |-> p, kind |-> "link", data |-> "", target |-> t]

\* the central directory of a file's content, when the content is a zip archive
IsZip(d) == d \in {"zipA", "zipB"}

ZipEntries(d) ==
    IF d = "zipA" THEN <<File(<<"fixture-marker">>, "marker")>>
    ELSE IF d = "zipB"
    THEN <<Dir(<<"lib">>), File(<<"lib", "b.jar">>, "inner"), File(<<"a.jar">>, "inner")>>
    ELSE <<>>

----------------------------------------------------------------------------
(* File-system primitives (os.Lstat, os.Stat, ioutil.ReadDir, os.RemoveAll, *)
(* os.MkdirAll + os.OpenFile as sherpa.CopyFile uses them).                *)

IsPrefix(p, q) == Len(p) <= Len(q) /\ SubSeq(q, 1, Len(p)) = p

Base(p) == p[Len(p)]

Parent(p) == SubSeq(p, 1, Len(p) - 1)

Exists(fs, p) == \E e \in fs : e.path = p

Get(fs, p) == CHOOSE e \in fs : e.path = p

\* os.Stat: follows a symbolic link to its target
Stat(fs, p) ==
    IF p = <<>> THEN [ok |-> TRUE, isDir |-> TRUE, data |-> ""]
    ELSE IF ~Exists(fs, p) THEN [ok |-> FALSE, isDir |-> FALSE, data |-> ""]
    ELSE LET e == Get(fs, p) IN
         IF e.kind # "link"
         THEN [ok |-> TRUE, isDir |-> e.kind = "dir", data |-> e.data]
         ELSE IF ~Exists(fs, e.target)
         THEN [ok |-> FALSE, isDir |-> FALSE, data |-> ""]
         ELSE LET t == Get(fs, e.target) IN
              [ok |-> t.kind # "link", isDir |-> t.kind = "dir", data |-> t.data]

\* ioutil.ReadDir: the names of the children of p, sorted
ReadDir(fs, p) == SelectSeq(SortedNames, LAMBDA n : Exists(fs, Append(p, n)))

\* os.Remove in place of os.RemoveAll: a directory that is not empty stays
RemoveUnlessNotEmpty(fs, p) ==
    IF \E e \in fs : IsPrefix(p, e.path) /\ e.path # p THEN fs
    ELSE {e \in fs : e.path # p}

\* os.RemoveAll
RemoveAll(fs, p) == {e \in fs : ~IsPrefix(p, e.path)}

\* os.MkdirAll(p) succeeds unless a component of p exists and is no directory
CanMkdirAll(fs, p) ==
    \A i \in 1..Len(p) :
        Exists(fs, SubSeq(p, 1, i)) => Stat(fs, SubSeq(p, 1, i)).isDir

MkdirAll(fs, p) ==
    fs \cup {Dir(SubSeq(p, 1, i)) : i \in {j \in 1..Len(p) : ~Exists(fs, SubSeq(p, 1, j))}}

\* sherpa.CopyFile: MkdirAll(Dir(to)), then OpenFile(to, O_CREATE|O_WRONLY|O_TRUNC)
CanWriteFile(fs, p) ==
    /\ CanMkdirAll(fs, Parent(p))
    /\ Exists(fs, p) => Get(fs, p).kind = "file"

WriteFile(fs, p, d) ==
    {e \in MkdirAll(fs, Parent(p)) : e.path # p} \cup {File(p, d)}

----------------------------------------------------------------------------
(* Tree copies and archive extraction as sequences of file operations.     *)
(* An operation is [op, dst, data]: "copy" writes one file, "mkdir" makes  *)
(* one directory, "fail" is a step whose system call returns an error.     *)

CopyOp(dst, d) == [op |-> "copy", dst |-> dst, data |-> d]
MkdirOp(dst) == [op |-> "mkdir", dst |-> dst, data |-> ""]
FailOp(dst) == [op |-> "fail", dst |-> dst, data |-> ""]

\* copyFile(from, to): os.Open(from) follows links, sherpa.CopyFile writes to
CopyFileOps(fs, from, to) ==
    LET st == Stat(fs, from) IN
    IF st.ok /\ ~st.isDir THEN <<CopyOp(to, st.data)>> ELSE <<FailOp(to)>>

\* copyDirectory(from, to): depth first, in ReadDir order; a directory is never
\* made for its own sake, only as the parent of a file that is copied
RECURSIVE CopyDirectoryOps(_, _, _)
CopyDirectoryOps(fs, from, to) ==
    LET st == Stat(fs, from)
        names == ReadDir(fs, from)
        Step(n) ==
            LET sourcePath == Append(from, n)
                destPath == Append(to, n)
                fileInfo == Stat(fs, sourcePath)
            IN IF ~fileInfo.ok THEN <<FailOp(destPath)>>
               ELSE IF fileInfo.isDir THEN CopyDirectoryOps(fs, sourcePath, destPath)
               ELSE CopyFileOps(fs, sourcePath, destPath)
        All[i \in 0..Len(names)] ==
            IF i = 0 THEN <<>> ELSE All[i - 1] \o Step(names[i])
    IN IF ~(st.ok /\ st.isDir) THEN <<FailOp(to)>> ELSE All[Len(names)]

\* crush.ExtractZip(in, dest, 0): zip.NewReader fails on what is no archive;
\* every entry is made under dest, directories by MkdirAll, files written
ExtractZipOps(d) ==
    LET es == ZipEntries(d) IN
    IF ~IsZip(d) THEN <<FailOp(<<>>)>>
    ELSE [i \in 1..Len(es) |->
            IF es[i].kind = "dir" THEN MkdirOp(es[i].path)
            ELSE CopyOp(es[i].path, es[i].data)]

CanApply(fs, o) ==
    IF o.op = "copy" THEN CanWriteFile(fs, o.dst)
    ELSE IF o.op = "mkdir" THEN CanMkdirAll(fs, o.dst)
    ELSE FALSE

Apply(fs, o) ==
    IF o.op = "copy" THEN WriteFile(fs, o.dst, o.data) ELSE MkdirAll(fs, o.dst)

\* The input/output faults a sequence of operations can meet: 0 is none, k > 0
\* makes the k-th system call fail (with no operation, the directory read).
Faults(ops) == 0..(IF Len(ops) = 0 THEN 1 ELSE Len(ops))

\* the operation that failed is tried again until the sequence is complete,
\* and the failure is still reported
RunOpsCompleting(fs, ops, fault) ==
    LET R[i \in 0..Len(ops)] ==
            IF i = 0 THEN fs
            ELSE IF CanApply(R[i - 1], ops[i]) THEN Apply(R[i - 1], ops[i])
            ELSE R[i - 1]
    IN [fs |-> R[Len(ops)], ok |-> fault = 0 /\ \A i \in 1..Len(ops) : CanApply(R[i - 1], ops[i])]

\* Runs ops against fs until the first failure: [fs, ok]
RunOps(fs, ops, fault) ==
    LET R[i \in 0..Len(ops)] ==
            IF i = 0 THEN [fs |-> fs, ok |-> fault = 0 \/ Len(ops) > 0]
            ELSE IF ~R[i - 1].ok THEN R[i - 1]
            ELSE IF i = fault \/ ~CanApply(R[i - 1].fs, ops[i])
            THEN [fs |-> R[i - 1].fs, ok |-> FALSE]
            ELSE [fs |-> Apply(R[i - 1].fs, ops[i]), ok |-> TRUE]
    IN R[Len(ops)]

----------------------------------------------------------------------------
(* Patterns.  A pattern is a string, modelled as its sequence of lexemes:  *)
(* " " separates shell words, "\"" is a quote, "/" separates the segments  *)
(* of a path, every other lexeme is one segment of a glob: "*", "*.jar",   *)
(* the malformed "[", or a literal name.                                   *)

Space == " "
Quote == "\""
Slash == "/"

\* shellwords.Parse: words split at unquoted spaces, quotes dropped, empty
\* words dropped; an unclosed quote is an error
RECURSIVE ShellScan(_, _, _, _)
ShellScan(s, inQuote, word, words) ==
    IF s = <<>>
    THEN [ok |-> ~inQuote,
          words |-> IF inQuote THEN <<>>
                    ELSE IF word = <<>> THEN words ELSE Append(words, word)]
    ELSE IF Head(s) = Quote THEN ShellScan(Tail(s), ~inQuote, word, words)
    ELSE IF Head(s) = Space /\ ~inQuote
    THEN ShellScan(Tail(s), inQuote, <<>>,
                   IF word = <<>> THEN words ELSE Append(words, word))
    ELSE ShellScan(Tail(s), inQuote, Append(word, Head(s)), words)

ShellWords(s) == ShellScan(s, FALSE, <<>>, <<>>)

\* filepath.Join(a, b): the non-empty elements joined by a separator
Join(a, b) ==
    IF a = <<>> THEN b ELSE IF b = <<>> THEN a ELSE a \o <<Slash>> \o b

\* the segments of a cleaned path: the lexemes between separators
Segments(s) == SelectSeq(s, LAMBDA x : x # Slash)

HasMeta(seg) == seg \in {"*", "*.jar", "random-*", "["}

BadSegment(seg) == seg = "["

\* filepath.Match of one segment against one name
Match(seg, name) ==
    IF seg = "*" THEN TRUE
    ELSE IF seg = "*.jar" THEN name \in JarNames
    ELSE IF seg = "random-*" THEN name \in {"random-file", "random-link"}
    ELSE seg = name

\* filepath.glob(dir, pattern, matches): the sorted names of dir that match
GlobIn(fs, dir, seg) ==
    LET st == Stat(fs, dir)
        names == SelectSeq(ReadDir(fs, dir), LAMBDA n : Match(seg, n))
    IN IF st.ok /\ st.isDir THEN [i \in 1..Len(names) |-> Append(dir, names[i])]
       ELSE <<>>

\* filepath.Glob of a well-formed pattern, as paths below the root
RECURSIVE GlobSegments(_, _)
GlobSegments(fs, segs) ==
    IF \A i \in 1..Len(segs) : ~HasMeta(segs[i])
    THEN IF segs = <<>> \/ Exists(fs, segs) THEN <<segs>> ELSE <<>>
    ELSE LET dir == SubSeq(segs, 1, Len(segs) - 1)
             file == segs[Len(segs)]
             m == GlobSegments(fs, dir)
             All[i \in 0..Len(m)] ==
                 IF i = 0 THEN <<>> ELSE All[i - 1] \o GlobIn(fs, m[i], file)
         IN All[Len(m)]

\* filepath.Glob(filepath.Join(applicationPath, pattern)): [ok, paths]
Glob(fs, token) ==
    LET segs == Segments(token) IN
    IF \E i \in 1..Len(segs) : BadSegment(segs[i])
    THEN [ok |-> FALSE, paths |-> <<>>]
    ELSE [ok |-> TRUE, paths |-> GlobSegments(fs, segs)]

----------------------------------------------------------------------------
(* ArtifactResolver.                                                       *)

\* libpak.ConfigurationResolver.Resolve(key): the value the user set and true,
\* or the default and false
ResolveKey(cfg, key) ==
    IF key = "artifact"
    THEN [value |-> IF cfg.artifactSet THEN cfg.artifactValue ELSE cfg.artifactDefault,
          ok |-> cfg.artifactSet]
    ELSE [value |-> IF cfg.moduleSet THEN cfg.moduleValue ELSE <<>>,
          ok |-> cfg.moduleSet]

\* the module key taken before the artifact key
PatternModuleFirst(cfg) ==
    LET a == ResolveKey(cfg, "artifact")
        m == ResolveKey(cfg, "module")
    IN IF m.ok THEN Join(m.value, IF a.ok THEN cfg.artifactDefault ELSE a.value)
       ELSE a.value

\* ArtifactResolver.Pattern
Pattern(cfg) ==
    LET a == ResolveKey(cfg, "artifact")
        m == ResolveKey(cfg, "module")
    IN IF a.ok THEN a.value
       ELSE IF m.ok THEN Join(m.value, a.value)
       ELSE a.value

\* the matches of a token and everything below the directories among them
GlobExpandingDirectories(fs, token) ==
    LET segs == Segments(token)
        m == GlobSegments(fs, segs)
        inside(p) == {e.path : e \in {x \in fs : IsPrefix(p, x.path) /\ x.path # p}}
        extra == UNION {inside(m[i]) : i \in 1..Len(m)}
        Seq1[n \in 0..Cardinality(extra)] ==
            IF n = 0 THEN <<>>
            ELSE Append(Seq1[n - 1],
                        CHOOSE x \in extra :
                            x \notin {Seq1[n - 1][j] : j \in 1..(n - 1)})
    IN IF \E i \in 1..Len(segs) : BadSegment(segs[i])
       THEN [ok |-> FALSE, paths |-> <<>>]
       ELSE [ok |-> TRUE, paths |-> m \o Seq1[Cardinality(extra)]]

\* the matches of one token of ResolveMany
GlobToken(fs, token) == Glob(fs, token)

\* the matches of a token replace the matches of the tokens before it
AppendReplacing(candidates, cs) == cs

\* candidates = append(candidates, cs...)
AppendAll(candidates, cs) == candidates \o cs

\* the evaluation of the tokens stopped at the first malformed one
FirstBadPattern(bad) == IF bad = <<>> THEN bad ELSE <<bad[1]>>

\* the malformed tokens ResolveMany reports
BadPatterns(bad) == bad

\* ArtifactResolver.ResolveMany: [ok, paths] and, of a failure, its cause with
\* the tokens it reports; the matches of every token are appended in token
\* order, nothing is removed from the list
ResolveMany(fs, cfg) ==
    LET parsed == ShellWords(Pattern(cfg))
        patterns == parsed.words
        G(i) == GlobToken(fs, patterns[i])
        badPatterns == SelectSeq(patterns, LAMBDA t : ~GlobToken(fs, t).ok)
        All[i \in 0..Len(patterns)] ==
            IF i = 0 THEN <<>> ELSE AppendAll(All[i - 1], G(i).paths)
        candidates == All[Len(patterns)]
        Failure(cause, tokens) ==
            [ok |-> FALSE, paths |-> <<>>, cause |-> cause, tokens |-> tokens]
    IN IF ~parsed.ok THEN Failure("shellwords", <<>>)
       ELSE IF Len(badPatterns) > 0 THEN Failure("bad", BadPatterns(badPatterns))
       ELSE IF Len(candidates) > 0
            THEN [ok |-> TRUE, paths |-> candidates, cause |-> "", tokens |-> <<>>]
       ELSE Failure("none", patterns)

\* the message of the error ResolveMany returns
ResolveManyError(r, help) ==
    IF r.cause = "shellwords" THEN <<"unable to parse shellwords patterns\n">>
    ELSE IF r.cause = "bad"
    THEN <<"unable to proceed due to bad pattern(s):\n", r.tokens>>
    ELSE IF r.cause = "none"
    THEN <<"unable to find any built artifacts for pattern(s):\n", r.tokens>>
         \o (IF help # "" THEN <<". ", help>> ELSE <<>>)
    ELSE <<>>

----------------------------------------------------------------------------
(* ApplicationFactory: the fingerprint.                                    *)

\* sherpa.NewFileListing(app.ApplicationPath): one entry per path of the tree
FileListing(fs) ==
    {[path |-> e.path, mode |-> e.kind,
      sha256 |-> IF e.kind = "file" THEN e.data ELSE ""] : e \in fs}

EmptyMap == [k \in {} |-> ""]

\* the caller's keys written first: a built-in key keeps the built-in value
ExpectedMetadataBuiltInLast(additionalMetadata, args, cfg, fs, javaVersion) ==
    LET metadata == [k \in {"arguments", "artifact-pattern", "files", "java-version"} |->
                        IF k = "arguments" THEN args
                        ELSE IF k = "artifact-pattern" THEN Pattern(cfg)
                        ELSE IF k = "files" THEN FileListing(fs)
                        ELSE javaVersion]
    IN [k \in DOMAIN metadata \cup DOMAIN additionalMetadata |->
            IF k \in DOMAIN metadata THEN metadata[k]
            ELSE additionalMetadata[k]]

\* ApplicationFactory.expectedMetadata: the caller's keys are written last
ExpectedMetadata(additionalMetadata, args, cfg, fs, javaVersion) ==
    LET metadata == [k \in {"arguments", "artifact-pattern", "files", "java-version"} |->
                        IF k = "arguments" THEN args
                        ELSE IF k = "artifact-pattern" THEN Pattern(cfg)
                        ELSE IF k = "files" THEN FileListing(fs)
                        ELSE javaVersion]
    IN [k \in DOMAIN metadata \cup DOMAIN additionalMetadata |->
            IF k \in DOMAIN additionalMetadata THEN additionalMetadata[k]
            ELSE metadata[k]]

----------------------------------------------------------------------------
(* Cache: the provenance entry.                                            *)

\* libjvm.NewMavenJARListing(c.Path): name and version of every jar
MavenJARListing(jars) ==
    {[name |-> "test-file", version |-> "1.1.1"] : j \in jars \cap {"test-file-1.1.1.jar"}}

\* an entry for the launch and not for the build
AsBOMEntryForLaunch(jars) ==
    [name |-> "build-dependencies",
     metadata |-> [k \in {"dependencies"} |-> MavenJARListing(jars)],
     build |-> FALSE, launch |-> TRUE]

\* Cache.AsBOMEntry
AsBOMEntry(jars) ==
    [name |-> "build-dependencies",
     metadata |-> [k \in {"dependencies"} |-> MavenJARListing(jars)],
     build |-> TRUE, launch |-> FALSE]

\* Cache.Name
CacheName == "cache"

----------------------------------------------------------------------------
(* The inputs of a run.                                                    *)

\* an entry another buildpack step left in the BOM
OtherEntry ==
    [name |-> "jre", metadata |-> [k \in {"layer"} |-> "jre"],
     build |-> FALSE, launch |-> TRUE]

\* what the platform hands to a build: the workspace and the caller's BOM
Platforms ==
    { [files |-> {}, bom |-> <<>>],
      [files |-> {File(<<"random-file">>, "plain"),
                  Link(<<"random-link">>, <<"random-file">>)},
       bom |-> <<OtherEntry>>] }

Output(files, jars) == [files |-> files, jars |-> jars]

NoJars == {}
TestJar == {"test-file-1.1.1.jar"}

\* what the external build command leaves behind: the files it adds to the
\* workspace and the jars it downloads into the dependency cache
BuildOutputs ==
    { Output({}, NoJars),
      Output({File(<<"a.jar">>, "zipA")}, TestJar),
      Output({File(<<"a.jar">>, "zipB")}, NoJars),
      Output({File(<<"a.jar">>, "plain")}, TestJar),
      Output({File(<<"application.zip">>, "zipA"), File(<<"a.jar">>, "zipB")}, NoJars),
      Output({Dir(<<"target">>), File(<<"target", "a.jar">>, "zipA"),
              File(<<"target", "b.jar">>, "plain")}, TestJar),
      Output({Dir(<<"target">>), Dir(<<"target", "lib">>),
              Link(<<"target", "random-link">>, <<"random-file">>)}, NoJars),
      Output({Dir(<<"target">>), File(<<"target", "a.jar">>, "zipA"),
              Dir(<<"target", "lib">>), File(<<"target", "lib", "a.jar">>, "plain"),
              Dir(<<"other">>), File(<<"other", "a.jar">>, "other")}, TestJar) }

Cfg(aSet, aValue, aDefault, mSet, mValue) ==
    [artifactSet |-> aSet, artifactValue |-> aValue, artifactDefault |-> aDefault,
     moduleSet |-> mSet, moduleValue |-> mValue]

\* configurations of the artifact and module keys
Configs ==
    { Cfg(FALSE, <<>>, <<"*">>, FALSE, <<>>),
      Cfg(FALSE, <<>>, <<"*.jar">>, TRUE, <<"target">>),
      Cfg(FALSE, <<>>, <<"target">>, FALSE, <<>>),
      Cfg(TRUE, <<"target", Slash, "*", Space, "other", Slash, "a.jar">>, <<"*">>, FALSE, <<>>),
      Cfg(TRUE, <<"target", Slash, "lib", Space, "other">>, <<"*">>, TRUE, <<"target">>),
      Cfg(TRUE, <<"*.jar", Space, "a.jar">>, <<"*">>, FALSE, <<>>),
      Cfg(TRUE, <<"[", Space, "*">>, <<"*">>, FALSE, <<>>),
      Cfg(TRUE, <<Quote, "*">>, <<"*">>, FALSE, <<>>) }

\* the settings a run reads from its configuration and its environment; an
\* empty pattern is a key that is not set
Environment(include, exclude, disabled) ==
    [BP_INCLUDE_FILES |-> include, BP_EXCLUDE_FILES |-> exclude,
     BP_BOM_LABEL_DISABLED |-> disabled]

NoEnvironment == Environment(<<>>, <<>>, FALSE)

NoCall == [op |-> "none"]

\* the configurations and settings of a run
Runs ==
    {[cfg |-> c, env |-> NoEnvironment] : c \in Configs}
    \cup {[cfg |-> Cfg(FALSE, <<>>, <<"target">>, FALSE, <<>>), env |-> e] :
            e \in {Environment(<<"random-*">>, <<>>, FALSE),
                   Environment(<<"random-*">>, <<"random-link">>, FALSE),
                   Environment(<<"*">>, <<>>, FALSE)}}
    \cup {[cfg |-> c, env |-> Environment(<<>>, <<"*">>, FALSE)] : c \in Configs}
    \cup {[cfg |-> Cfg(FALSE, <<>>, <<"*">>, FALSE, <<>>),
           env |-> Environment(<<>>, <<>>, TRUE)]}

ArgumentChoices == {<<"package">>, <<"verify">>}

JavaVersions == {"17"}

AdditionalChoices == {EmptyMap}

\* additional metadata of a caller that names a key of the fingerprint
CallerPattern == [k \in {"artifact-pattern"} |-> <<"caller-pattern">>]

\* the additional metadata NewApplication is called with in a run
AdditionalFor(run, args) ==
    IF /\ run = [cfg |-> Cfg(FALSE, <<>>, <<"*.jar">>, TRUE, <<"target">>), env |-> NoEnvironment]
       /\ args = <<"package">>
    THEN AdditionalChoices \cup {CallerPattern}
    ELSE AdditionalChoices

----------------------------------------------------------------------------
(* The state machine.                                                      *)

ApplicationZip == <<"application.zip">>

\* no run of Contribute has started
NoRun ==
    /\ workspace = {}
    /\ layer = {}
    /\ cached = [valid |-> FALSE, fs |-> {}, meta |-> EmptyMap]
    /\ cacheJars = {}
    /\ config = Cfg(FALSE, <<>>, <<>>, FALSE, <<>>)
    /\ arguments = <<>>
    /\ expected = EmptyMap
    /\ bom = <<>>
    /\ bom0 = <<>>
    /\ pc = "idle"
    /\ cacheHit = FALSE
    /\ artifacts = <<>>
    /\ idx = 0
    /\ children = <<>>
    /\ err = ""
    /\ log = <<>>
    /\ wsBuilt = {}
    /\ environment = NoEnvironment

Init ==
    /\ NoRun
    /\ input = NoCall
    /\ output = NoCall

\* a call Contribute made and whether it returned without error
Call(step, ok) == [step |-> step, ok |-> ok]

\* Proceed with the error of the capture step's copy dropped
ProceedIgnoringCaptureError(step, ok, next) ==
    /\ pc' = IF ok \/ step = "capture" THEN next ELSE "failed"
    /\ err' = IF ok \/ step = "capture" THEN err ELSE step

\* Proceed with the error of the build command dropped
ProceedIgnoringBuildError(step, ok, next) ==
    /\ pc' = IF ok \/ step = "build" THEN next ELSE "failed"
    /\ err' = IF ok \/ step = "build" THEN err ELSE step

\* Proceed with the error of ResolveMany dropped
ProceedIgnoringResolveError(step, ok, next) ==
    /\ pc' = IF ok \/ step = "resolve" THEN next ELSE "failed"
    /\ err' = IF ok \/ step = "resolve" THEN err ELSE step

\* Proceed with the error of the SBOM scan dropped
ProceedIgnoringScanError(step, ok, next) ==
    /\ pc' = IF ok \/ step = "scan" THEN next ELSE "failed"
    /\ err' = IF ok \/ step = "scan" THEN err ELSE step

\* Proceed with the purge moved in front of the SBOM scan
ProceedPurgeBeforeScan(step, ok, next) ==
    /\ pc' = IF ~ok THEN "failed" ELSE IF next = "scan" THEN "list" ELSE next
    /\ err' = IF ok THEN err ELSE step

\* a failed step tried again
ProceedRetrying(step, ok, next) ==
    /\ pc' = IF ok THEN next ELSE pc
    /\ err' = IF ok THEN err ELSE step

\* "if err != nil { return libcnb.Layer{}, fmt.Errorf(...) }": an error of the
\* call ends Contribute with that error, otherwise control goes on to next
Proceed(step, ok, next) ==
    /\ pc' = IF ok THEN next ELSE "failed"
    /\ err' = IF ok THEN err ELSE step

\* The platform starts a build: a fresh workspace, the layer as the last successful
\* build left it (a failed build exports nothing), and the caller's BOM.
Setup ==
    /\ pc \in {"idle", "done", "failed"}
    /\ \E p \in Platforms :
        /\ workspace' = p.files
        /\ wsBuilt' = p.files
        /\ bom' = p.bom
        /\ bom0' = p.bom
    /\ cached' = IF pc = "done" THEN [valid |-> TRUE, fs |-> layer, meta |-> expected]
                 ELSE cached
    /\ layer' = cached'.fs
    /\ pc' = "new"
    /\ cacheHit' = FALSE
    /\ artifacts' = <<>>
    /\ idx' = 0
    /\ children' = <<>>
    /\ err' = ""
    /\ log' = <<>>
    /\ expected' = EmptyMap
    /\ UNCHANGED <<environment, callVars>>
    /\ UNCHANGED <<cacheJars, config, arguments>>

\* ApplicationFactory.NewApplication
NewApplication ==
    /\ pc = "new"
    /\ \E args \in ArgumentChoices, run \in Runs, javaVersion \in JavaVersions :
       \E additionalMetadata \in AdditionalFor(run, args) :
        LET cfg == run.cfg IN
        /\ arguments' = args
        /\ config' = cfg
        /\ environment' = run.env
        /\ expected' = ExpectedMetadata(additionalMetadata, args, cfg, workspace, javaVersion)
    /\ pc' = "ready"
    /\ UNCHANGED callVars
    /\ UNCHANGED <<workspace, layer, cached, cacheJars, bom, cacheHit, artifacts, idx,
                   children, err, log, wsBuilt, bom0>>

\* the stored layer metadata never taken to equal the expected metadata
MetadataNeverMatches(c, e) == FALSE

\* LayerContributor: the metadata stored with the layer equals the expected
MetadataMatches(c, e) == c.valid /\ c.meta = e

\* a.LayerContributor.Contribute: the layer function is skipped when the stored
\* metadata equals the expected; otherwise the layer directory is emptied first
LayerContribute ==
    /\ pc = "ready"
    /\ IF MetadataMatches(cached, expected)
       THEN /\ cacheHit' = TRUE
            /\ pc' = "scan"
            /\ layer' = layer
       ELSE /\ cacheHit' = FALSE
            /\ pc' = "build"
            /\ layer' = {}
    /\ UNCHANGED <<environment, callVars>>
    /\ UNCHANGED <<workspace, cached, cacheJars, config, arguments, expected, bom,
                   artifacts, idx, children, err, log, wsBuilt, bom0>>

\* a.Executor.Execute: the external build command
Build ==
    /\ pc = "build"
    /\ \E out \in BuildOutputs, ok \in BOOLEAN :
        /\ workspace' = workspace \cup out.files
        /\ wsBuilt' = workspace \cup out.files
        /\ cacheJars' = cacheJars \cup out.jars
        /\ log' = Append(log, Call("build", ok))
        /\ Proceed("build", ok, "resolve")
    /\ UNCHANGED <<environment, callVars>>
    /\ UNCHANGED <<layer, cached, config, arguments, expected, bom, cacheHit, artifacts,
                   idx, children, bom0>>

\* a.ArtifactResolver.ResolveMany(a.ApplicationPath)
Resolve ==
    /\ pc = "resolve"
    /\ LET r == ResolveMany(workspace, config) IN
        /\ artifacts' = r.paths
        /\ idx' = 1
        /\ log' = Append(log, Call("resolve", r.ok))
        /\ Proceed("resolve", r.ok, "capture")
    /\ UNCHANGED <<environment, callVars>>
    /\ UNCHANGED <<workspace, layer, cached, cacheJars, config, arguments, expected, bom,
                   cacheHit, children, wsBuilt, bom0>>

\* every regular file stored under its own base name
CaptureFileNameAlwaysBase(as, artifact) == <<Base(artifact)>>

\* where the capture step stores an artifact that is a regular file
CaptureFileName(as, artifact) ==
    IF Len(as) = 1 THEN ApplicationZip ELSE <<Base(artifact)>>

\* the copies the capture step makes for one artifact
CaptureOps(fs, as, artifact) ==
    LET fileInfo == Stat(fs, artifact) IN
    IF ~fileInfo.ok THEN <<FailOp(artifact)>>
    ELSE IF fileInfo.isDir THEN CopyDirectoryOps(fs, artifact, <<Base(artifact)>>)
    ELSE CopyFileOps(fs, artifact, CaptureFileName(as, artifact))

\* one artifact of the capture step; after the last one the layer function returns
Capture ==
    /\ pc = "capture"
    /\ idx <= Len(artifacts)
    /\ LET ops == CaptureOps(workspace, artifacts, artifacts[idx]) IN
       \E fault \in Faults(ops) :
        LET r == RunOps(layer, ops, fault) IN
        /\ layer' = r.fs
        /\ log' = Append(log, Call("capture", r.ok))
        /\ idx' = idx + 1
        /\ Proceed("capture", r.ok, IF idx = Len(artifacts) THEN "scan" ELSE "capture")
    /\ UNCHANGED <<environment, callVars>>
    /\ UNCHANGED <<workspace, cached, cacheJars, config, arguments, expected, bom,
                   cacheHit, artifacts, children, wsBuilt, bom0>>

\* a.SBOMScanner.ScanBuild
Scan ==
    /\ pc = "scan"
    /\ \E ok \in BOOLEAN :
        /\ log' = Append(log, Call("scan", ok))
        /\ Proceed("scan", ok, "bom")
    /\ UNCHANGED <<environment, callVars>>
    /\ UNCHANGED <<workspace, layer, cached, cacheJars, config, arguments, expected, bom,
                   cacheHit, artifacts, idx, children, wsBuilt, bom0>>

\* the entry appended as Cache.AsBOMEntry returned it, without the layer name
WithoutLayer(entry) == entry

\* entry.Metadata["layer"] = a.Cache.Name()
WithLayer(entry) ==
    [entry EXCEPT !.metadata =
        [k \in DOMAIN entry.metadata \cup {"layer"} |->
            IF k = "layer" THEN CacheName ELSE entry.metadata[k]]]

\* a.Cache.AsBOMEntry and the append to a.BOM.Entries
AppendBOM ==
    /\ pc = "bom"
    /\ \E ok \in BOOLEAN :
        /\ log' = Append(log, Call("bom", ok))
        /\ bom' = IF ok THEN Append(bom, WithLayer(AsBOMEntry(cacheJars))) ELSE bom
        /\ Proceed("bom", ok, "list")
    /\ UNCHANGED <<environment, callVars>>
    /\ UNCHANGED <<workspace, layer, cached, cacheJars, config, arguments, expected,
                   cacheHit, artifacts, idx, children, wsBuilt, bom0>>

\* ioutil.ReadDir(a.ApplicationPath)
PurgeList ==
    /\ pc = "list"
    /\ \E ok \in BOOLEAN :
        /\ log' = Append(log, Call("list", ok))
        /\ children' = IF ok THEN ReadDir(workspace, <<>>) ELSE <<>>
        /\ idx' = 1
        /\ Proceed("purge", ok, IF ReadDir(workspace, <<>>) = <<>> THEN "restore" ELSE "purge")
    /\ UNCHANGED <<environment, callVars>>
    /\ UNCHANGED <<workspace, layer, cached, cacheJars, config, arguments, expected, bom,
                   cacheHit, artifacts, wsBuilt, bom0>>

\* os.RemoveAll of one child of a.ApplicationPath
PurgeChild ==
    /\ pc = "purge"
    /\ idx <= Len(children)
    /\ \E ok \in BOOLEAN :
        /\ log' = Append(log, Call("remove", ok))
        /\ workspace' = IF ok THEN RemoveAll(workspace, <<children[idx]>>) ELSE workspace
        /\ idx' = idx + 1
        /\ Proceed("purge", ok, IF idx = Len(children) THEN "restore" ELSE "purge")
    /\ UNCHANGED <<environment, callVars>>
    /\ UNCHANGED <<layer, cached, cacheJars, config, arguments, expected, bom, cacheHit,
                   artifacts, children, wsBuilt, bom0>>

\* the branch chosen by the number of artifacts this run resolved
RestoreBranchByArtifactCount(fs, statFails) ==
    IF statFails THEN "stat"
    ELSE IF Len(artifacts) = 1 THEN "zip"
    ELSE "copy"

\* the branch of the restore step: os.Stat(<layer>/application.zip) returned nil
\* ("zip"), an error for which os.IsNotExist holds ("copy"), or another error
RestoreBranch(fs, statFails) ==
    IF statFails THEN "stat"
    ELSE IF Stat(fs, ApplicationZip).ok THEN "zip"
    ELSE "copy"

\* a restore step that writes nothing back
RestoreNothing(fs, branch) == <<>>

\* what the chosen branch writes into the workspace
RestoreOps(fs, branch) ==
    IF branch = "zip"
    THEN IF Stat(fs, ApplicationZip).isDir THEN <<FailOp(<<>>)>>
         ELSE ExtractZipOps(Stat(fs, ApplicationZip).data)
    ELSE IF branch = "copy" THEN CopyDirectoryOps(fs, <<>>, <<>>)
    ELSE <<FailOp(<<>>)>>

\* the restore step
Restore ==
    /\ pc = "restore"
    /\ \E statFails \in BOOLEAN :
        LET branch == RestoreBranch(layer, statFails)
            ops == RestoreOps(layer, branch)
        IN \E fault \in Faults(ops) :
                LET r == RunOps(workspace, ops, fault) IN
                /\ log' = Append(log, Call(branch, r.ok))
                /\ workspace' = r.fs
                /\ Proceed("restore", r.ok, "done")
    /\ UNCHANGED <<environment, callVars>>
    /\ UNCHANGED <<layer, cached, cacheJars, config, arguments, expected, bom, cacheHit,
                   artifacts, idx, children, wsBuilt, bom0>>

Next ==
    \/ Setup
    \/ NewApplication
    \/ LayerContribute
    \/ Build
    \/ Resolve
    \/ Capture
    \/ Scan
    \/ AppendBOM
    \/ PurgeList
    \/ PurgeChild
    \/ Restore

Spec == Init /\ [][Next]_vars

----------------------------------------------------------------------------
(* Properties.                                                             *)

Has(step) == \E i \in 1..Len(log) : log[i].step = step

Failed(step) == \E i \in 1..Len(log) : log[i] = Call(step, FALSE)

Succeeded(step) == \E i \in 1..Len(log) : log[i] = Call(step, TRUE)

Count(step) == Cardinality({i \in 1..Len(log) : log[i].step = step})

RestoreSteps == {"zip", "copy", "stat"}

Restored == \E i \in 1..Len(log) : log[i].step \in RestoreSteps

IsFile(fs, p) == Stat(fs, p).ok /\ ~Stat(fs, p).isDir

IsDirectory(fs, p) == Stat(fs, p).ok /\ Stat(fs, p).isDir

\* the files of tree fs below directory p, as paths relative to p
FilesBelow(fs, p) ==
    {SubSeq(e.path, Len(p) + 1, Len(e.path)) :
        e \in {x \in fs : IsPrefix(p, x.path) /\ x.path # p /\ IsFile(fs, x.path)}}

\* every artifact of as is present in tree l under the name the capture gives it
AllCaptured(ws, as, l) ==
    /\ Len(as) > 0
    /\ \A i \in 1..Len(as) :
        /\ Stat(ws, as[i]).ok
        /\ IsFile(ws, as[i]) => IsFile(l, CaptureFileName(as, as[i]))
        /\ IsDirectory(ws, as[i]) =>
              \A r \in FilesBelow(ws, as[i]) : IsFile(l, <<Base(as[i])>> \o r)

\* C1: the purge begins only in a run with a cache hit or with every resolved
\* artifact copied into the layer directory without error; in a run where a copy
\* into the layer directory failed no child of the workspace is removed.
C1_PurgeOnlyAfterCapture ==
    /\ Has("remove") =>
          \/ cacheHit
          \/ ~Failed("capture") /\ AllCaptured(wsBuilt, artifacts, layer)
    /\ Failed("capture") => ~Has("remove") /\ workspace = wsBuilt

C1_Witness ==
    /\ ~cacheHit
    /\ Succeeded("remove")
    /\ Len(artifacts) > 1

\* C2: when the build command fails, Contribute returns that error and performs
\* no later step: nothing is resolved, copied, scanned, appended to the BOM,
\* purged or restored, and the workspace is as the build command left it.
C2_BuildFailureAborts ==
    Failed("build") =>
        /\ pc = "failed"
        /\ err = "build"
        /\ log = <<Call("build", FALSE)>>
        /\ artifacts = <<>>
        /\ layer = {}
        /\ bom = bom0
        /\ workspace = wsBuilt

C2_Witness ==
    /\ Failed("build")
    /\ pc = "failed"
    /\ workspace # {}

\* C3: when ResolveMany fails after a successful build, Contribute returns an
\* error, nothing was written into the layer directory and nothing is purged.
C3_ResolveFailureAborts ==
    Failed("resolve") =>
        /\ pc = "failed"
        /\ err = "resolve"
        /\ log = <<Call("build", TRUE), Call("resolve", FALSE)>>
        /\ layer = {}
        /\ workspace = wsBuilt

C3_Witness ==
    /\ Failed("resolve")
    /\ pc = "failed"
    /\ workspace # {}

\* C4: when the SBOM scan or the provenance step fails, Contribute returns an
\* error, neither the purge nor the restore is performed and the workspace
\* keeps all its children.
C4_ScanOrLedgerFailureAborts ==
    (Failed("scan") \/ Failed("bom")) =>
        /\ pc = "failed"
        /\ err \in {"scan", "bom"}
        /\ ~Has("list")
        /\ ~Has("remove")
        /\ ~Restored
        /\ workspace = wsBuilt

C4_Witness ==
    /\ Failed("scan")
    /\ pc = "failed"
    /\ ~cacheHit
    /\ workspace # {}

\* what a tree holds after crush.ExtractZip of an archive with content d into
\* an empty directory: every entry, and the directories above it
ZipImage(d) ==
    UNION {{ZipEntries(d)[i]} \cup
           {Dir(SubSeq(ZipEntries(d)[i].path, 1, k)) :
                k \in 1..(Len(ZipEntries(d)[i].path) - 1)} :
           i \in 1..Len(ZipEntries(d))}

\* C5: a run whose fingerprint equals the one stored by the last successful run
\* is a cache hit: no build, no resolution and no capture happen and the layer
\* is the one captured before; a successful cache-hit run still scans, appends
\* the provenance entry, purges and restores, and the workspace ends holding
\* what was captured before.
C5_UnchangedFingerprintIsCacheHit ==
    /\ (pc \notin {"idle", "new", "ready"} /\ cached.valid /\ cached.meta = expected)
          => cacheHit
    /\ cacheHit =>
          /\ ~Has("build") /\ ~Has("resolve") /\ ~Has("capture")
          /\ artifacts = <<>>
          /\ layer = cached.fs
    /\ (cacheHit /\ pc = "done") =>
          /\ Succeeded("scan") /\ Succeeded("bom") /\ Succeeded("list")
          /\ Count("remove") = Len(children)
          /\ Restored
          /\ Len(bom) = Len(bom0) + 1
          /\ workspace = IF IsFile(cached.fs, ApplicationZip)
                         THEN ZipImage(Get(cached.fs, ApplicationZip).data)
                         ELSE cached.fs

C5_Witness ==
    /\ cacheHit
    /\ pc = "done"
    /\ Count("remove") > 0
    /\ workspace # {}

\* the order of the steps of Contribute
StepOrder ==
    <<"build", "resolve", "capture", "scan", "bom", "list", "remove", "restore">>

Position(step) ==
    LET s == IF step \in RestoreSteps THEN "restore" ELSE step IN
    CHOOSE i \in 1..Len(StepOrder) : StepOrder[i] = s

\* C6: the steps of a run occur in the order build, resolve, capture (cache miss
\* only), SBOM scan, provenance append, purge, restore; the scan and the append
\* precede the first removal of a workspace child; the restore is attempted at
\* most once, only after the purge completed, and ends a successful run.
C6_StepOrder ==
    /\ \A i, j \in 1..Len(log) :
          i < j => Position(log[i].step) <= Position(log[j].step)
    /\ \A i, j \in 1..Len(log) :
          (i < j /\ Position(log[i].step) = Position(log[j].step))
             => log[i].step \in {"capture", "remove"}
    /\ Has("capture") => ~cacheHit
    /\ (Has("scan") /\ ~cacheHit) =>
          /\ Succeeded("build") /\ Succeeded("resolve")
          /\ Count("capture") = Len(artifacts)
    /\ Has("remove") => Succeeded("scan") /\ Succeeded("bom") /\ Succeeded("list")
    /\ Restored =>
          /\ Succeeded("list")
          /\ ~Failed("remove")
          /\ Count("remove") = Len(children)
    /\ pc = "done" =>
          /\ log[Len(log)].step \in RestoreSteps
          /\ log[Len(log)].ok
          /\ \A i \in 1..Len(log) : log[i].ok

C6_Witness ==
    /\ pc = "done"
    /\ ~cacheHit
    /\ Count("capture") > 1
    /\ Count("remove") > 1

\* the capture step of a cache-miss run has copied every artifact
CaptureDone ==
    /\ ~cacheHit
    /\ Len(artifacts) > 0
    /\ Count("capture") = Len(artifacts)
    /\ ~Failed("capture")

\* tree l holds the files of directory p of tree ws below the name base
HoldsDirectory(ws, p, l, base) ==
    \A r \in FilesBelow(ws, p) :
        /\ IsFile(l, <<base>> \o r)
        /\ Get(l, <<base>> \o r).data = Stat(ws, p \o r).data

\* C7: the capture step writes application.zip into the layer directory if and
\* only if exactly one artifact was resolved and it is a regular file; one
\* resolved directory is copied recursively to <layer>/<its base name>; two or
\* more artifacts are each copied to <layer>/<its own base name>.
C7_CaptureLayout ==
    CaptureDone =>
        /\ IsFile(layer, ApplicationZip)
              <=> (Len(artifacts) = 1 /\ IsFile(wsBuilt, artifacts[1]))
        /\ (Len(artifacts) = 1 /\ IsDirectory(wsBuilt, artifacts[1])) =>
              /\ IsDirectory(layer, <<Base(artifacts[1])>>)
              /\ HoldsDirectory(wsBuilt, artifacts[1], layer, Base(artifacts[1]))
        /\ Len(artifacts) > 1 =>
              \A i \in 1..Len(artifacts) :
                 /\ IsFile(wsBuilt, artifacts[i]) => IsFile(layer, <<Base(artifacts[i])>>)
                 /\ IsDirectory(wsBuilt, artifacts[i]) =>
                       \A r \in FilesBelow(wsBuilt, artifacts[i]) :
                           IsFile(layer, <<Base(artifacts[i])>> \o r)

\* C8: the restore step takes one of two branches, chosen only by whether
\* <layer>/application.zip exists: if it exists the archive is extracted into
\* the workspace root and nothing else of the layer is copied; if it does not
\* exist every entry of the layer directory is copied into the workspace root;
\* another stat error fails the run and restores nothing.
C8_RestoreBranch ==
    /\ Count("zip") + Count("copy") + Count("stat") <= 1
    /\ Has("zip") =>
          /\ Exists(layer, ApplicationZip)
          /\ IsFile(layer, ApplicationZip) =>
                workspace \subseteq ZipImage(Get(layer, ApplicationZip).data)
          /\ pc = "done" => workspace = ZipImage(Get(layer, ApplicationZip).data)
    /\ Has("copy") =>
          /\ ~Exists(layer, ApplicationZip)
          /\ workspace \subseteq layer
          /\ pc = "done" => workspace = layer
    /\ Has("stat") => pc = "failed" /\ workspace = {}
    /\ pc = "done" => (Has("zip") <=> Exists(layer, ApplicationZip))

C8_Witness ==
    /\ pc = "done"
    /\ Has("copy")
    /\ Cardinality(layer) > 1
    /\ cacheHit

\* the only artifact resolved is a regular file that is a zip archive
SingleZipFile ==
    /\ Len(artifacts) = 1
    /\ IsFile(wsBuilt, artifacts[1])
    /\ IsZip(Stat(wsBuilt, artifacts[1]).data)

SeveralFiles ==
    /\ Len(artifacts) > 1
    /\ \A i \in 1..Len(artifacts) : IsFile(wsBuilt, artifacts[i])

OneDirectory ==
    /\ Len(artifacts) = 1
    /\ IsDirectory(wsBuilt, artifacts[1])

SeveralDirectories ==
    /\ Len(artifacts) > 1
    /\ \A i \in 1..Len(artifacts) : IsDirectory(wsBuilt, artifacts[i])

\* C10: after a successful run that resolved several files, one directory or
\* several directories, application.zip does not exist in the layer directory,
\* the workspace holds for every artifact an entry of the artifact's base name
\* directly under its root (a directory with all its files beneath it), and
\* nothing of the workspace that was no artifact is left.
C10_MultiArtifactRun ==
    (pc = "done" /\ ~cacheHit /\ (SeveralFiles \/ OneDirectory \/ SeveralDirectories)) =>
        /\ ~Exists(layer, ApplicationZip)
        /\ \A i \in 1..Len(artifacts) :
              /\ Exists(workspace, <<Base(artifacts[i])>>)
              /\ IsDirectory(wsBuilt, artifacts[i]) =>
                    \A r \in FilesBelow(wsBuilt, artifacts[i]) :
                        IsFile(workspace, <<Base(artifacts[i])>> \o r)
        /\ \A e \in workspace :
              \E i \in 1..Len(artifacts) : e.path[1] = Base(artifacts[i])

----------------------------------------------------------------------------
(* Runs that end.                                                          *)

\* Contribute is sequential code and its calls return: steps keep being taken.
\* Some step can be taken in every state (Setup once a run has ended), so this
\* is weak fairness of Next, written without ENABLED
FairSpec == Spec /\ []<><<Next>>_vars

\* the step of Contribute whose error a failed call returns
ErrorOf(call) ==
    IF call.step \in {"list", "remove"} THEN "purge"
    ELSE IF call.step \in RestoreSteps THEN "restore"
    ELSE call.step

\* no step of the run so far was executed twice and a failed call is the last
\* call of the run, with its error returned
NoRetry ==
    /\ \A step \in {"build", "resolve", "scan", "bom", "list"} : Count(step) <= 1
    /\ Count("zip") + Count("copy") + Count("stat") <= 1
    /\ Count("capture") <= Len(artifacts)
    /\ Count("remove") <= Len(children)
    /\ \A i \in 1..Len(log) :
          ~log[i].ok => /\ i = Len(log)
                        /\ pc = "failed"
                        /\ err = ErrorOf(log[i])
    /\ pc = "failed" => Len(log) > 0 /\ ~log[Len(log)].ok
    /\ pc = "done" => err = ""

Running == pc \notin {"idle", "done", "failed"}

\* C28: within a run no step is retried: the build, ResolveMany, the scan, the
\* provenance step, the purge and the restore are executed at most once, the
\* first error ends the run and is the error returned, and every run ends in
\* success or in failure
C28_NoRetry == [](NoRetry) /\ (Running ~> pc \in {"done", "failed"})

\* a run that failed in its purge after every earlier step succeeded
C28_Witness ==
    /\ pc = "failed"
    /\ err = "purge"
    /\ Failed("remove")
    /\ Count("remove") = 2
    /\ Succeeded("build") /\ Succeeded("bom")

----------------------------------------------------------------------------
(* The purge and the settings of a run.                                    *)

Matching(fs, pattern) ==
    IF pattern = <<>> THEN {}
    ELSE {Glob(fs, pattern).paths[i] : i \in 1..Len(Glob(fs, pattern).paths)}

\* what a successful restore step writes into the workspace
RestoreImage(l) ==
    IF IsFile(l, ApplicationZip) THEN ZipImage(Get(l, ApplicationZip).data) ELSE l

\* C12: with BP_INCLUDE_FILES set, the workspace entries its pattern matches
\* are still there, unchanged, after a successful run, except those that
\* BP_EXCLUDE_FILES matches as well, which the purge removed
C12_IncludedFilesKept ==
    (pc = "done" /\ environment.BP_INCLUDE_FILES # <<>>) =>
        \A p \in Matching(wsBuilt, environment.BP_INCLUDE_FILES) :
            IF p \in Matching(wsBuilt, environment.BP_EXCLUDE_FILES)
            THEN \A e \in workspace : e.path = p => e \in RestoreImage(layer)
            ELSE Exists(workspace, p) /\ Get(workspace, p) = Get(wsBuilt, p)

----------------------------------------------------------------------------
(* A restore step that fails.                                              *)

RestoreFailed == \E i \in 1..Len(log) : log[i].step \in RestoreSteps /\ ~log[i].ok

\* the purge of the run listed the workspace and removed every child
PurgeCompleted ==
    /\ Succeeded("list")
    /\ ~Failed("remove")
    /\ Count("remove") = Len(children)

\* tree ws holds a restored artifact, with everything the restore step writes
\* when none of its operations fails
FullyRestored(ws, l) ==
    LET r == RunOps({}, RestoreOps(l, RestoreBranch(l, FALSE)), 0)
    IN ws # {} /\ r.ok /\ ws = r.fs

\* C29: when the restore step fails after the purge completed, the run fails
\* with the error of the restore step, the restore is not tried again and
\* nothing is rolled back: the workspace holds only what the restore step wrote
\* before it failed, none of its original entries and no fully restored
\* artifact
C29_RestoreFails ==
    RestoreFailed =>
        /\ PurgeCompleted
        /\ pc = "failed" /\ err = "restore"
        /\ Count("zip") + Count("copy") + Count("stat") = 1
        /\ log[Len(log)].step \in RestoreSteps
        /\ workspace \subseteq RestoreImage(layer)
        /\ \A e \in wsBuilt : e \in workspace => e \in RestoreImage(layer)
        /\ ~FullyRestored(workspace, layer)

\* an extraction of application.zip that failed after it wrote some entries
C29_Witness ==
    /\ Failed("zip")
    /\ PurgeCompleted
    /\ Count("remove") > 0
    /\ workspace # {}

----------------------------------------------------------------------------
(* The provenance entry.                                                   *)

\* the listing of the dependency cache a provenance entry is to carry
DependenciesOf(jars) ==
    IF "test-file-1.1.1.jar" \in jars
    THEN {[name |-> "test-file", version |-> "1.1.1"]} ELSE {}

C15_LabelBOMSuppressed ==
    (pc = "done" /\ environment.BP_BOM_LABEL_DISABLED) =>
        /\ Succeeded("scan")
        /\ Succeeded("list")
        /\ Restored
        /\ bom = bom0

----------------------------------------------------------------------------
(* ApplicationFactory.expectedMetadata, called for two applications.       *)

\* ApplicationFactory.javaVersion: the version in what javac -version printed,
\* as the words strings.Split finds between single spaces
JavaVersion(javac) ==
    IF ~javac.ok THEN [ok |-> FALSE, version |-> ""]
    ELSE IF Len(javac.words) = 2 THEN [ok |-> TRUE, version |-> javac.words[2]]
    ELSE IF Len(javac.words) = 1 THEN [ok |-> TRUE, version |-> javac.words[1]]
    ELSE IF Len(javac.words) = 0 THEN [ok |-> TRUE, version |-> ""]
    ELSE [ok |-> TRUE, version |-> "unknown"]

\* what javac -version may print, or its failure
JavacOutputs ==
    { [ok |-> TRUE, words |-> <<"javac", "17">>],
      [ok |-> TRUE, words |-> <<"javac", "11">>],
      [ok |-> TRUE, words |-> <<"17">>],
      [ok |-> TRUE, words |-> <<"openjdk", "javac", "17">>],
      [ok |-> FALSE, words |-> <<>>] }

\* the caller's additional metadata
AdditionalMetadata ==
    { EmptyMap,
      [k \in {"addl-key"} |-> "addl-value"],
      [k \in {"addl-key"} |-> "other-value"],
      [k \in {"files"} |-> {}],
      [k \in {"arguments"} |-> <<"caller-argument">>],
      CallerPattern,
      [k \in {"java-version"} |-> "caller-version"] }

\* the arguments of NewApplication that the fingerprint depends on
FactoryInputs ==
    [ additionalMetadata : AdditionalMetadata,
      arguments : ArgumentChoices,
      cfg : { Cfg(FALSE, <<>>, <<"*">>, FALSE, <<>>),
              Cfg(TRUE, <<"*">>, <<"*.jar">>, FALSE, <<>>),
              Cfg(FALSE, <<>>, <<"*.jar">>, TRUE, <<"target">>) },
      fs : { {File(<<"random-file">>, "plain")},
             {File(<<"random-file">>, "other")} },
      javac : JavacOutputs ]

\* ApplicationFactory.expectedMetadata: the metadata, or the error of javac
NewExpectedMetadata(app) ==
    LET v == JavaVersion(app.javac) IN
    IF ~v.ok THEN [ok |-> FALSE, metadata |-> EmptyMap]
    ELSE [ok |-> TRUE,
          metadata |-> ExpectedMetadata(app.additionalMetadata, app.arguments, app.cfg,
                                        app.fs, v.version)]

InitFactory ==
    /\ NoRun
    /\ input \in [op : {"expectedMetadata"}, a : FactoryInputs, b : FactoryInputs]
    /\ output = NoCall

\* the fingerprints of the two applications
ExpectedMetadataCall ==
    /\ input.op = "expectedMetadata"
    /\ output = NoCall
    /\ output' = [op |-> "expectedMetadata",
                  a |-> NewExpectedMetadata(input.a),
                  b |-> NewExpectedMetadata(input.b)]
    /\ UNCHANGED <<workspace, layer, cached, cacheJars, config, arguments, expected, bom,
                   pc, cacheHit, artifacts, idx, children, err, log, wsBuilt, bom0,
                   environment, input>>

NextFactory == ExpectedMetadataCall

SpecFactory == InitFactory /\ [][NextFactory]_vars

\* the fingerprint holds the four fields of the application and every key of
\* the caller
HoldsFields(app, metadata) ==
    /\ metadata["files"] = FileListing(app.fs)
    /\ metadata["arguments"] = app.arguments
    /\ metadata["artifact-pattern"] = Pattern(app.cfg)
    /\ metadata["java-version"] = JavaVersion(app.javac).version
    /\ \A k \in DOMAIN app.additionalMetadata : metadata[k] = app.additionalMetadata[k]

\* two applications with the same listing, arguments, pattern, tool version
\* and additional metadata
SameFields(x, y) ==
    /\ FileListing(x.fs) = FileListing(y.fs)
    /\ x.arguments = y.arguments
    /\ Pattern(x.cfg) = Pattern(y.cfg)
    /\ JavaVersion(x.javac).version = JavaVersion(y.javac).version
    /\ x.additionalMetadata = y.additionalMetadata

\* C16: the fingerprint holds the workspace listing under files, the
\* arguments under arguments, the effective pattern under artifact-pattern,
\* the tool version under java-version and every key of the caller; two
\* applications get the same fingerprint exactly when they agree on all five
C16_Fingerprint ==
    (output.op = "expectedMetadata" /\ output.a.ok /\ output.b.ok) =>
        /\ HoldsFields(input.a, output.a.metadata)
        /\ HoldsFields(input.b, output.b.metadata)
        /\ SameFields(input.a, input.b) <=> output.a.metadata = output.b.metadata

BuiltInKeys == {"arguments", "artifact-pattern", "files", "java-version"}

\* the value expectedMetadata computes for built-in key k of application app
BuiltIn(app, k) ==
    IF k = "arguments" THEN app.arguments
    ELSE IF k = "artifact-pattern" THEN Pattern(app.cfg)
    ELSE IF k = "files" THEN FileListing(app.fs)
    ELSE JavaVersion(app.javac).version

\* the caller's value is in the fingerprint under every key of the caller
HoldsCallerKeys(app, metadata) ==
    \A k \in DOMAIN app.additionalMetadata : metadata[k] = app.additionalMetadata[k]

\* C35: the caller's additional metadata is merged last: under a key of the
\* caller that is a built-in key the fingerprint holds the caller's value and
\* not the built-in one, so two applications with the same additional
\* metadata get the same fingerprint whenever they agree on the built-in
\* inputs the caller did not name, whatever the named ones are
C35_CallerKeysLast ==
    (output.op = "expectedMetadata" /\ output.a.ok /\ output.b.ok) =>
        /\ HoldsCallerKeys(input.a, output.a.metadata)
        /\ HoldsCallerKeys(input.b, output.b.metadata)
        /\ output.a.metadata = output.b.metadata
              <=> /\ input.a.additionalMetadata = input.b.additionalMetadata
                  /\ \A k \in BuiltInKeys \ DOMAIN input.a.additionalMetadata :
                        BuiltIn(input.a, k) = BuiltIn(input.b, k)

\* two applications whose caller names java-version and whose javac versions
\* differ, with equal fingerprints
C35_Witness ==
    /\ output.op = "expectedMetadata"
    /\ output.a.ok /\ output.b.ok
    /\ "java-version" \in DOMAIN input.a.additionalMetadata
    /\ JavaVersion(input.a.javac).version # JavaVersion(input.b.javac).version
    /\ output.a.metadata = output.b.metadata
    /\ output.a.metadata["java-version"] = "caller-version"

----------------------------------------------------------------------------
(* ArtifactResolver.Resolve, called once.                                  *)

\* name a is a proper prefix of name b and the byte of b that follows a sorts
\* before the path separator
SortsBeforeSlash(a, b) == a = "target" /\ b = "target-classes"

NameIndex(n) == CHOOSE i \in 1..Len(SortedNames) : SortedNames[i] = n

\* the byte order of two paths written with separators, as sort.Strings
\* compares them
PathLess(p, q) ==
    IF p = q THEN FALSE
    ELSE IF IsPrefix(p, q) THEN TRUE
    ELSE IF IsPrefix(q, p) THEN FALSE
    ELSE LET i == CHOOSE j \in 1..Len(p) :
                      /\ p[j] # q[j]
                      /\ \A l \in 1..(j - 1) : p[l] = q[l]
         IN IF SortsBeforeSlash(p[i], q[i]) THEN i = Len(p)
            ELSE IF SortsBeforeSlash(q[i], p[i]) THEN i # Len(q)
            ELSE NameIndex(p[i]) < NameIndex(q[i])

\* sort.Strings of a slice of distinct paths
SortStrings(paths) ==
    LET Rank(i) == Cardinality({j \in 1..Len(paths) : PathLess(paths[j], paths[i])})
    IN [r \in 1..Len(paths) |-> paths[CHOOSE i \in 1..Len(paths) : Rank(i) = r - 1]]

\* InterestingFileDetector.Interesting of a detector that is given by the
\* paths it finds interesting and the paths it cannot read
Interesting(detector, path) ==
    [ok |-> path \notin detector.broken, interesting |-> path \in detector.interesting]

\* a loop that takes a candidate the detector fails on for not interesting
\* and goes on
InvestigateSkippingErrors(detector, candidates, found, calls) ==
    [ok |-> TRUE,
     artifacts |-> found \o SelectSeq(candidates,
                       LAMBDA c : Interesting(detector, c).ok
                                  /\ Interesting(detector, c).interesting),
     calls |-> calls \o candidates]

\* the loop of Resolve over the candidates: the interesting ones, the calls
\* made to the detector, and whether every call returned
RECURSIVE Investigate(_, _, _, _)
Investigate(detector, candidates, found, calls) ==
    IF candidates = <<>> THEN [ok |-> TRUE, artifacts |-> found, calls |-> calls]
    ELSE LET c == Head(candidates)
             r == Interesting(detector, c)
         IN IF ~r.ok THEN [ok |-> FALSE, artifacts |-> found, calls |-> Append(calls, c)]
            ELSE Investigate(detector, Tail(candidates),
                             IF r.interesting THEN Append(found, c) ELSE found,
                             Append(calls, c))

\* the message of the error Resolve returns for lack of a single artifact
HelpMsg(pattern, candidates, help) ==
    <<"unable to find single built artifact in ", pattern, ", candidates: ", candidates>>
    \o (IF help # "" THEN <<". ", help>> ELSE <<>>)

Result(ok, path, cause, msg, pattern, calls) ==
    [op |-> "resolve", ok |-> ok, path |-> path, err |-> cause, msg |-> msg,
     pattern |-> pattern, calls |-> calls]

\* the error of filepath.Glob dropped
GlobErrorIgnored(g) == FALSE

\* filepath.Glob returned an error (the pattern is malformed)
GlobFailed(g) == ~g.ok

\* the detector asked even about a single candidate
NeverSingleCandidate(candidates) == FALSE

\* len(candidates) == 1: the candidate is returned without asking the detector
SingleCandidate(candidates) == Len(candidates) = 1

\* the first interesting candidate taken when there are several
FirstArtifact(found) == Len(found) >= 1

\* len(artifacts) == 1: the interesting candidate is returned
SingleArtifact(found) == Len(found) = 1

\* ArtifactResolver.Resolve
ResolveOne(fs, cfg, detector, help) ==
    LET pattern == Pattern(cfg)
        g == Glob(fs, pattern)
        candidates == g.paths
        inv == Investigate(detector, candidates, <<>>, <<>>)
        found == inv.artifacts
        sorted == SortStrings(found)
    IN IF GlobFailed(g) THEN Result(FALSE, <<>>, "glob", <<>>, pattern, <<>>)
       ELSE IF SingleCandidate(candidates)
            THEN Result(TRUE, candidates[1], "", <<>>, pattern, <<>>)
       ELSE IF ~inv.ok THEN Result(FALSE, <<>>, "investigate", <<>>, pattern, inv.calls)
       ELSE IF SingleArtifact(found)
            THEN Result(TRUE, found[1], "", <<>>, pattern, inv.calls)
       ELSE Result(FALSE, <<>>, "single", HelpMsg(pattern, candidates, help), pattern,
                   inv.calls)

\* an entry of an archive; of a manifest, what reading it gives: the key
\* Main-Class, other keys only, or the step that fails
ZipFile(name, manifest) == [name |-> name, manifest |-> manifest]

WebInf == "WEB-INF/"
Manifest == "META-INF/MANIFEST.MF"

\* JARInterestingFileDetector.entry: [ok, interesting]
Entry(f) ==
    IF f.name = WebInf THEN [ok |-> TRUE, interesting |-> TRUE]
    ELSE IF f.name = Manifest
    THEN IF f.manifest \in {"unopenable", "unreadable", "unparsable"}
         THEN [ok |-> FALSE, interesting |-> FALSE]
         ELSE [ok |-> TRUE, interesting |-> f.manifest = "Main-Class"]
    ELSE [ok |-> TRUE, interesting |-> FALSE]

\* the loop of JARInterestingFileDetector.Interesting over z.File
RECURSIVE EntryLoop(_)
EntryLoop(files) ==
    IF files = <<>> THEN [ok |-> TRUE, interesting |-> FALSE]
    ELSE LET r == Entry(Head(files)) IN
         IF ~r.ok THEN [ok |-> FALSE, interesting |-> FALSE]
         ELSE IF r.interesting THEN [ok |-> TRUE, interesting |-> TRUE]
         ELSE EntryLoop(Tail(files))

\* JARInterestingFileDetector.Interesting
JARInteresting(archive) ==
    IF ~archive.valid THEN [ok |-> FALSE, interesting |-> FALSE]
    ELSE EntryLoop(archive.files)

\* the most entries an archive of the model has
MaxEntries == 3

ZipFiles ==
    { ZipFile(WebInf, ""), ZipFile("BOOT-INF/", "") }
    \cup {ZipFile(Manifest, m) :
            m \in {"Main-Class", "plain", "unopenable", "unreadable", "unparsable"}}

\* the files the detector is called on: valid archives and a file that
\* zip.OpenReader rejects
Archives ==
    {[valid |-> FALSE, files |-> <<>>]}
    \cup {[valid |-> TRUE, files |-> f] :
            f \in UNION {[1..n -> ZipFiles] : n \in 0..MaxEntries}}

\* the trees Resolve is called on
ResolverWorkspaces ==
    { {},
      {File(<<"a.jar">>, "zipA")},
      {File(<<"a.jar">>, "zipA"), File(<<"b.jar">>, "plain")},
      {Dir(<<"target">>), File(<<"target", "a.jar">>, "zipA"),
       File(<<"target", "b.jar">>, "plain"), Dir(<<"lib">>)},
      {Dir(<<"target">>), File(<<"target", "a.jar">>, "zipA"),
       Dir(<<"target-classes">>), File(<<"target-classes", "a.jar">>, "plain"),
       File(<<"target-classes", "b.jar">>, "plain")} }

\* the artifact key (value and default) and the module key of the resolver
ResolverConfigs ==
    { Cfg(aSet, aValue, aDefault, mSet, mValue) :
        aSet \in BOOLEAN, mSet \in BOOLEAN,
        aValue \in {<<"a.jar">>, <<"*", Slash, "*.jar">>},
        aDefault \in {<<"*.jar">>, <<"*">>, <<"[">>, <<>>},
        mValue \in {<<"target">>, <<>>} }

\* the detectors: what they find interesting and what they fail on
Detectors ==
    [ interesting : SUBSET { <<"a.jar">>, <<"b.jar">>, <<"target", "a.jar">>,
                             <<"target", "b.jar">>, <<"target-classes", "a.jar">> },
      broken : { {}, {<<"b.jar">>}, {<<"target", "a.jar">>} } ]

\* ArtifactResolver.AdditionalHelpMessage
HelpMessages == {"", "Some more help."}

\* the patterns ResolveMany is called with, as values of the artifact key
ManyPatterns ==
    { <<"*.jar">>,
      <<"target", Space, "lib">>,
      <<"target", Space, "*.jar">>,
      <<"target", Space, "target", Slash, "*.jar">>,
      <<"*.jar", Space, "a.jar">>,
      <<"*", Slash, "a.jar", Space, Quote, "target", Slash, "a.jar", Quote>>,
      <<"[", Space, "*", Space, "target", Slash, "[">>,
      <<"*", Space, "[">>,
      <<"other">>,
      <<"other", Space, "lib", Slash, "*">>,
      <<Quote, "*">> }

ManyConfigs == {Cfg(TRUE, p, <<"*">>, FALSE, <<>>) : p \in ManyPatterns}

InitResolver ==
    /\ NoRun
    /\ input \in [op : {"resolve"}, fs : ResolverWorkspaces, cfg : ResolverConfigs,
                   detector : Detectors, help : HelpMessages]
               \cup [op : {"resolveMany"}, fs : ResolverWorkspaces, cfg : ManyConfigs,
                     detector : Detectors, help : HelpMessages]
               \cup [op : {"interesting"}, archive : Archives]
    /\ output = NoCall

\* one call of Resolve
ResolveCall ==
    /\ input.op = "resolve"
    /\ output = NoCall
    /\ output' = ResolveOne(input.fs, input.cfg, input.detector, input.help)
    /\ UNCHANGED <<workspace, layer, cached, cacheJars, config, arguments, expected, bom,
                   pc, cacheHit, artifacts, idx, children, err, log, wsBuilt, bom0,
                   environment, input>>

\* one call of ResolveMany; the detector of the resolver is never asked
ResolveManyCall ==
    /\ input.op = "resolveMany"
    /\ output = NoCall
    /\ LET r == ResolveMany(input.fs, input.cfg) IN
        output' = [op |-> "resolveMany", ok |-> r.ok, path |-> r.paths, err |-> r.cause,
                   msg |-> ResolveManyError(r, input.help),
                   pattern |-> Pattern(input.cfg), calls |-> <<>>]
    /\ UNCHANGED <<workspace, layer, cached, cacheJars, config, arguments, expected, bom,
                   pc, cacheHit, artifacts, idx, children, err, log, wsBuilt, bom0,
                   environment, input>>

\* one call of JARInterestingFileDetector.Interesting
InterestingCall ==
    /\ input.op = "interesting"
    /\ output = NoCall
    /\ LET r == JARInteresting(input.archive) IN
        output' = [op |-> "interesting", ok |-> r.ok, interesting |-> r.interesting]
    /\ UNCHANGED <<workspace, layer, cached, cacheJars, config, arguments, expected, bom,
                   pc, cacheHit, artifacts, idx, children, err, log, wsBuilt, bom0,
                   environment, input>>

NextResolver ==
    \/ ResolveCall
    \/ ResolveManyCall
    \/ InterestingCall

SpecResolver == InitResolver /\ [][NextResolver]_vars

\* C17: the effective pattern is the value of the artifact key whenever that
\* key is configured, whether or not the module key is; otherwise, with the
\* module key configured, the module value joined as a directory before the
\* default pattern; otherwise the default pattern alone
C17_PatternPrecedence ==
    output.op = "resolve" =>
        LET c == input.cfg IN
        output.pattern =
            IF c.artifactSet THEN c.artifactValue
            ELSE IF ~c.moduleSet THEN c.artifactDefault
            ELSE IF c.moduleValue = <<>> THEN c.artifactDefault
            ELSE IF c.artifactDefault = <<>> THEN c.moduleValue
            ELSE c.moduleValue \o <<Slash>> \o c.artifactDefault

\* both keys were configured and the artifact key won
C17_Witness ==
    /\ output.op = "resolve"
    /\ input.cfg.artifactSet /\ input.cfg.moduleSet
    /\ input.cfg.moduleValue = <<"target">>
    /\ output.pattern = <<"a.jar">>
    /\ output.ok /\ output.path = <<"a.jar">>

\* the paths of the tree that the pattern of the call matches
Candidates == Glob(input.fs, output.pattern).paths

\* the candidates the detector of the call marks as interesting
InterestingCandidates ==
    {Candidates[i] : i \in {j \in 1..Len(Candidates) :
                                Candidates[j] \in input.detector.interesting}}

\* C18: when exactly one path matches the pattern, Resolve returns that path
\* and never asks the detector, whatever the detector would answer
C18_SingleCandidate ==
    (output.op = "resolve" /\ Len(Candidates) = 1) =>
        /\ output.ok
        /\ output.path = Candidates[1]
        /\ output.calls = <<>>

\* the single candidate is one the detector does not find interesting, and
\* one it cannot read
C18_Witness ==
    /\ output.op = "resolve"
    /\ Candidates = <<<<"target", "a.jar">>>>
    /\ <<"target", "a.jar">> \notin input.detector.interesting
    /\ <<"target", "a.jar">> \in input.detector.broken
    /\ output.path = <<"target", "a.jar">>

\* C19: when the pattern matches no path or several and no call of the
\* detector fails, Resolve returns a path exactly when one candidate is
\* interesting, and returns that candidate; otherwise it returns an error
\* and no path
C19_SingleInteresting ==
    (/\ output.op = "resolve"
     /\ Len(Candidates) # 1
     /\ \A i \in 1..Len(Candidates) : Candidates[i] \notin input.detector.broken) =>
        /\ output.ok <=> Cardinality(InterestingCandidates) = 1
        /\ output.ok => output.path \in InterestingCandidates
        /\ ~output.ok => output.path = <<>> /\ output.err # ""

\* two candidates, the second one interesting
C19_Witness ==
    /\ output.op = "resolve"
    /\ Candidates = <<<<"a.jar">>, <<"b.jar">>>>
    /\ InterestingCandidates = {<<"b.jar">>}
    /\ output.ok /\ output.path = <<"b.jar">>
    /\ output.calls = Candidates

\* C20: the error for lack of a single artifact reports the pattern and the
\* whole candidate list, sorted, and then ". " and the additional help
\* message when there is one
C20_ErrorMessage ==
    (output.op = "resolve" /\ output.err = "single") =>
        /\ Len(output.msg) >= 4
        /\ output.msg[2] = output.pattern
        /\ output.msg[4] = SortStrings(Candidates)
        /\ SubSeq(output.msg, 5, Len(output.msg)) =
              IF input.help # "" THEN <<". ", input.help>> ELSE <<>>

\* the pattern of the call has a malformed segment
Malformed(pattern) ==
    \E i \in 1..Len(pattern) : pattern[i] = "["

\* C21: for a malformed pattern Resolve returns the pattern error at once: the
\* detector is not asked and no candidate list is reported, whatever the
\* workspace holds
C21_MalformedPattern ==
    (output.op = "resolve" /\ Malformed(output.pattern)) =>
        /\ ~output.ok
        /\ output.path = <<>>
        /\ output.err = "glob"
        /\ output.calls = <<>>
        /\ output.msg = <<>>

\* a malformed pattern below a directory that holds several files
C21_Witness ==
    /\ output.op = "resolve"
    /\ output.pattern = <<"target", Slash, "[">>
    /\ IsFile(input.fs, <<"target", "a.jar">>)
    /\ IsFile(input.fs, <<"target", "b.jar">>)
    /\ output.err = "glob"

----------------------------------------------------------------------------
(* ArtifactResolver.ResolveMany, called once.                              *)

\* the tokens of the pattern of the call
Tokens == ShellWords(output.pattern).words

\* the paths of the tree that a token matches
TokenMatches(t) ==
    {Glob(input.fs, t).paths[i] : i \in 1..Len(Glob(input.fs, t).paths)}

\* the paths that some token of the pattern matches
AllMatches == UNION {TokenMatches(Tokens[i]) : i \in 1..Len(Tokens)}

\* the pattern of the call splits into tokens
Parsed == output.op = "resolveMany" /\ ShellWords(output.pattern).ok

\* the paths a call returned
Returned == {output.path[i] : i \in 1..Len(output.path)}

\* C22: when every token is a well-formed glob and some token matches,
\* ResolveMany returns exactly the paths that the tokens match, files and
\* directories alike, and never asks the detector
C22_UnionOfMatches ==
    (/\ Parsed
     /\ \A i \in 1..Len(Tokens) : ~Malformed(Tokens[i])
     /\ AllMatches # {}) =>
        /\ output.ok
        /\ Returned = AllMatches
        /\ output.calls = <<>>

\* one token matched a directory, another one the files in it
C22_Witness ==
    /\ Parsed
    /\ Len(Tokens) = 2
    /\ output.ok
    /\ output.path = <<<<"target">>, <<"target", "a.jar">>, <<"target", "b.jar">>>>
    /\ IsDirectory(input.fs, <<"target">>)
    /\ IsFile(input.fs, <<"target", "a.jar">>)

\* C23: a directory that a token matches is returned itself, and a path
\* beneath it is returned only when a token matches that path
C23_DirectoryItself ==
    (Parsed /\ output.ok) =>
        \A d \in AllMatches :
            IsDirectory(input.fs, d) =>
                /\ d \in Returned
                /\ \A p \in Returned :
                      (IsPrefix(d, p) /\ p # d) => p \in AllMatches

\* a matched directory with two files in it, returned without them
C23_Witness ==
    /\ Parsed
    /\ output.ok
    /\ output.path = <<<<"target">>, <<"lib">>>>
    /\ IsFile(input.fs, <<"target", "a.jar">>)
    /\ IsFile(input.fs, <<"target", "b.jar">>)

\* the malformed tokens of the pattern of the call, in order
MalformedTokens == SelectSeq(Tokens, Malformed)

\* C24: with a malformed token in the pattern ResolveMany returns no path and
\* an error that lists every malformed token, also those after the first, and
\* no well-formed token, even when a well-formed token matched
C24_MalformedTokens ==
    (Parsed /\ MalformedTokens # <<>>) =>
        /\ ~output.ok
        /\ output.path = <<>>
        /\ output.err = "bad"
        /\ output.msg[2] = MalformedTokens

\* two malformed tokens around a token that matched
C24_Witness ==
    /\ Parsed
    /\ Len(MalformedTokens) = 2
    /\ MalformedTokens[1] # MalformedTokens[2]
    /\ AllMatches # {}
    /\ output.err = "bad"

\* the names in the root of the tree of the call
RootListing == ReadDir(input.fs, <<>>)

\* C25: when every token is well-formed and none matches, the error of
\* ResolveMany starts with "unable to find any built artifacts in <pattern>,
\* directory contains:", holds a listing of the root directory, and ends with
\* the additional help message when there is one
C25_NoMatchMessage ==
    (/\ Parsed
     /\ \A i \in 1..Len(Tokens) : ~Malformed(Tokens[i])
     /\ AllMatches = {}) =>
        /\ ~output.ok
        /\ Len(output.msg) >= 4
        /\ output.msg[1] = "unable to find any built artifacts in "
        /\ output.msg[3] = ", directory contains:"
        /\ output.msg[2] = output.pattern
        /\ output.msg[4] = RootListing
        /\ SubSeq(output.msg, 5, Len(output.msg)) =
              IF input.help # "" THEN <<". ", input.help>> ELSE <<>>

\* C26: what a successful ResolveMany returns is a non-empty set: no path is
\* in it twice, also when several tokens match the path
C26_NoDuplicates ==
    (Parsed /\ output.ok) =>
        /\ output.path # <<>>
        /\ \A i, j \in 1..Len(output.path) : output.path[i] = output.path[j] => i = j

----------------------------------------------------------------------------
(* JARInterestingFileDetector.Interesting, called once.                    *)

\* the archive has the directory entry WEB-INF/ or a manifest with Main-Class
Marked(archive) ==
    \E i \in 1..Len(archive.files) :
        \/ archive.files[i].name = WebInf
        \/ archive.files[i] = ZipFile(Manifest, "Main-Class")

\* the archive has a manifest that cannot be opened, read or parsed
UnreadableManifest(archive) ==
    \E i \in 1..Len(archive.files) :
        /\ archive.files[i].name = Manifest
        /\ archive.files[i].manifest \in {"unopenable", "unreadable", "unparsable"}

\* C27: Interesting returns true exactly when the archive has a directory
\* entry WEB-INF/ or a manifest with the key Main-Class, false for every other
\* valid archive, and an error, not false, for a file that is no archive or
\* whose manifest cannot be opened, read or parsed
C27_JARInteresting ==
    output.op = "interesting" =>
        IF ~input.archive.valid THEN ~output.ok
        ELSE IF Marked(input.archive) THEN output.ok /\ output.interesting
        ELSE IF UnreadableManifest(input.archive) THEN ~output.ok
        ELSE output.ok /\ ~output.interesting

----------------------------------------------------------------------------
(* Resolve with a detector that fails.                                     *)

\* the candidates of the call the detector fails on, by their place in the
\* order of filepath.Glob
BrokenCandidates == {i \in 1..Len(Candidates) : Candidates[i] \in input.detector.broken}

FirstBroken == CHOOSE i \in BrokenCandidates : \A j \in BrokenCandidates : i <= j

\* C37: with no candidate or several, Resolve asks the detector about the
\* candidates in the order of the glob; the first error of the detector ends
\* the resolution with an error and no path, also when another candidate is
\* the single interesting one, and no candidate after the failing one is
\* examined
C37_FirstClassifierError ==
    (output.op = "resolve" /\ output.err # "glob" /\ Len(Candidates) # 1) =>
        IF BrokenCandidates = {}
        THEN output.calls = Candidates /\ output.err # "investigate"
        ELSE /\ output.calls = SubSeq(Candidates, 1, FirstBroken)
             /\ ~output.ok
             /\ output.err = "investigate"
             /\ output.path = <<>>

\* the detector fails on the first of three candidates; the second would be
\* the only interesting one and is never examined
C37_Witness ==
    /\ output.op = "resolve"
    /\ output.err = "investigate"
    /\ Len(Candidates) = 3
    /\ FirstBroken = 1
    /\ InterestingCandidates = {Candidates[2]}
    /\ Len(output.calls) = 1

----------------------------------------------------------------------------
(* The pattern of a run.                                                   *)

\* C32: within a run the effective pattern is fixed: the pattern recorded in
\* the fingerprint under artifact-pattern when the Application was constructed
\* is the pattern ResolveMany expands during Contribute, and the configuration
\* it is taken from does not change while the run lasts
C32_PatternFixed ==
    /\ pc \notin {"idle", "new"} => expected["artifact-pattern"] = Pattern(config)
    /\ Succeeded("resolve") =>
          LET recorded == Cfg(TRUE, expected["artifact-pattern"], <<>>, FALSE, <<>>)
          IN artifacts = ResolveMany(wsBuilt, recorded).paths

----------------------------------------------------------------------------
(* Several captured artifacts.                                             *)

\* the name under which the capture step stores artifact i of the run
CapturedName(i) ==
    IF IsDirectory(wsBuilt, artifacts[i]) THEN <<Base(artifacts[i])>>
    ELSE CaptureFileName(artifacts, artifacts[i])

\* ResolveMany returned two or more distinct paths
SeveralDistinct == \E i, j \in 1..Len(artifacts) : artifacts[i] # artifacts[j]

\* C33: when ResolveMany returned two or more distinct paths the capture step
\* stores them under pairwise distinct names, so that every captured file
\* artifact is in the layer directory with its own content and none is
\* overwritten by another or merged into another
C33_DistinctNames ==
    (CaptureDone /\ SeveralDistinct) =>
        \A i, j \in 1..Len(artifacts) :
            artifacts[i] # artifacts[j] =>
                /\ CapturedName(i) # CapturedName(j)
                /\ IsFile(wsBuilt, artifacts[i]) =>
                      /\ IsFile(layer, CapturedName(i))
                      /\ Get(layer, CapturedName(i)).data = Stat(wsBuilt, artifacts[i]).data

\* C34: in a run that captured two or more artifacts the restore step takes
\* the branch that copies the layer directory and, when it succeeds, every
\* captured entry is in the workspace; it extracts application.zip only in a
\* run whose capture stored a single artifact that is a regular file
C34_RestoreByArtifactCount ==
    (CaptureDone /\ Restored) =>
        /\ Len(artifacts) >= 2 =>
              /\ ~Has("zip")
              /\ pc = "done" => workspace = layer
        /\ Has("zip") => Len(artifacts) = 1 /\ IsFile(wsBuilt, artifacts[1])

----------------------------------------------------------------------------
(* The BOM of a run that fails.                                            *)

\* the provenance entry of a run with the dependency cache jars
ProvenanceEntry(jars) ==
    [name |-> "build-dependencies",
     metadata |-> [k \in {"dependencies", "layer"} |->
                      IF k = "layer" THEN "cache" ELSE DependenciesOf(jars)],
     build |-> TRUE, launch |-> FALSE]

\* the statement that a failed run leaves the BOM as it found it
C36_BOMUnchangedOnError == pc = "failed" => bom = bom0

\* C36: a run that fails in a step up to the provenance step leaves the BOM
\* with exactly the entries it held before; a run that fails in the purge or
\* in the restore has recorded its provenance already and leaves the BOM with
\* the entries it held before followed by the one provenance entry
C36_BOMOnError ==
    pc = "failed" =>
        /\ err \in {"build", "resolve", "capture", "scan", "bom"} => bom = bom0
        /\ err \in {"purge", "restore"} => bom = Append(bom0, ProvenanceEntry(cacheJars))
        /\ err \in {"build", "resolve", "capture", "scan", "bom", "purge", "restore"}

\* a run that fails in its restore with an entry of another step in the BOM
C36_Witness ==
    /\ pc = "failed"
    /\ err = "restore"
    /\ bom0 # <<>>
    /\ Len(bom) = Len(bom0) + 1

----------------------------------------------------------------------------
(* Cache.Contribute, called once.                                          *)

\* libcnb.Layer as Cache.Contribute uses it
Layer(path, cache, build) == [path |-> path, cache |-> cache, build |-> build]

\* libcnb.Layer{}
ZeroLayer == Layer(<<>>, FALSE, FALSE)

\* the link made at oldname, pointing to newname
SymlinkReversed(fs, oldname, newname) ==
    IF Exists(fs, oldname) THEN [fs |-> fs, ok |-> FALSE, exist |-> TRUE]
    ELSE [fs |-> fs \cup {Link(oldname, newname)}, ok |-> TRUE, exist |-> FALSE]

\* a link that replaces what is at newname
SymlinkReplacing(fs, oldname, newname) ==
    IF ~Stat(fs, Parent(newname)).isDir THEN [fs |-> fs, ok |-> FALSE, exist |-> FALSE]
    ELSE [fs |-> {e \in fs : e.path # newname} \cup {Link(newname, oldname)},
          ok |-> TRUE, exist |-> FALSE]

\* os.Symlink(oldname, newname): EEXIST when anything, a dangling link too, is
\* at newname; oldname is not looked at
Symlink(fs, oldname, newname) ==
    IF Exists(fs, newname) THEN [fs |-> fs, ok |-> FALSE, exist |-> TRUE]
    ELSE IF ~Stat(fs, Parent(newname)).isDir THEN [fs |-> fs, ok |-> FALSE, exist |-> FALSE]
    ELSE [fs |-> fs \cup {Link(newname, oldname)}, ok |-> TRUE, exist |-> FALSE]

CacheResult(ok, fs, l, cause, msg) ==
    [op |-> "cacheContribute", ok |-> ok, fs |-> fs, layer |-> l, err |-> cause, log |-> msg]

\* Cache.Contribute of the cache at path, with layer l, on tree fs; fault is the
\* system call that fails for a reason the tree does not show
CacheContribute(fs, path, l, fault) ==
    IF fault = "layer" \/ ~CanMkdirAll(fs, l.path)
    THEN CacheResult(FALSE, fs, ZeroLayer, "unable to create layer directory", "")
    ELSE LET fs1 == MkdirAll(fs, l.path)
             file == Parent(path)
         IN IF fault = "parent" \/ ~CanMkdirAll(fs1, file)
            THEN CacheResult(FALSE, fs1, ZeroLayer, "unable to create directory", "")
            ELSE LET fs2 == MkdirAll(fs1, file)
                     link == Symlink(fs2, l.path, path)
                 IN IF fault # "symlink" /\ link.exist
                    THEN CacheResult(TRUE, fs2, [l EXCEPT !.cache = TRUE], "",
                                     "Cache already exists")
                    ELSE IF fault = "symlink" \/ ~link.ok
                    THEN CacheResult(FALSE, fs2, ZeroLayer, "unable to link cache", "")
                    ELSE CacheResult(TRUE, link.fs, [l EXCEPT !.cache = TRUE], "",
                                     "Creating cache directory")

\* the layer directories libcnb hands out: <layers>/<name>
LayerPaths == {<<"layers", "test-layer">>, <<"layers", "cache">>}

\* the cache of a build system, outside the layers directory
CachePaths == {<<"home", "test">>, <<"home", ".m2", "repository">>}

\* what is on the side of the layer before the call
LayerTrees(lp) ==
    {{}, {Dir(<<"layers">>)}, MkdirAll({}, lp),
     MkdirAll({}, lp) \cup {File(lp \o <<"test-file-1.1.1.jar">>, "plain")},
     {File(<<"layers">>, "plain")}}

\* what is on the side of the cache path before the call
CacheTrees(cp, lp) ==
    {{}, MkdirAll({}, Parent(cp)), {File(<<"home">>, "plain")},
     MkdirAll({}, Parent(cp)) \cup {Link(cp, lp)},
     MkdirAll({}, Parent(cp)) \cup {Link(cp, <<"layers", "gone">>)},
     MkdirAll({}, Parent(cp)) \cup {Dir(cp)},
     MkdirAll({}, Parent(cp)) \cup {File(cp, "plain")}}

CacheFaults == {"none", "layer", "parent", "symlink"}

CacheInputs ==
    UNION {[op : {"cacheContribute"},
            fs : {a \cup b : a \in LayerTrees(lp), b \in CacheTrees(cp, lp)},
            path : {cp},
            layer : {Layer(lp, c, b) : c, b \in BOOLEAN},
            fault : CacheFaults] : lp \in LayerPaths, cp \in CachePaths}

InitCache ==
    /\ NoRun
    /\ input \in CacheInputs
    /\ output = NoCall

\* one call of Cache.Contribute
CacheContributeCall ==
    /\ input.op = "cacheContribute"
    /\ output = NoCall
    /\ output' = CacheContribute(input.fs, input.path, input.layer, input.fault)
    /\ UNCHANGED <<workspace, layer, cached, cacheJars, config, arguments, expected, bom,
                   pc, cacheHit, artifacts, idx, children, err, log, wsBuilt, bom0,
                   environment, input>>

\* a second call of Cache.Contribute, with the cache path of the first call
\* and its layer, as given to the first call or as the first call returned it
CacheContributeAgain ==
    /\ input.op = "cacheContribute"
    /\ output.op = "cacheContribute"
    /\ output.ok
    /\ \E l \in {input.layer, output.layer}, fault \in CacheFaults :
          output' = [op |-> "cacheContributeAgain", first |-> output, layer |-> l,
                     fault |-> fault,
                     second |-> CacheContribute(output.fs, input.path, l, fault)]
    /\ UNCHANGED <<workspace, layer, cached, cacheJars, config, arguments, expected, bom,
                   pc, cacheHit, artifacts, idx, children, err, log, wsBuilt, bom0,
                   environment, input>>

NextCache == CacheContributeCall \/ CacheContributeAgain

SpecCache == InitCache /\ [][NextCache]_vars

\* no system call of Cache.Contribute fails on tree fs
CacheCanContribute(fs, path, l) ==
    /\ CanMkdirAll(fs, l.path)
    /\ CanMkdirAll(MkdirAll(fs, l.path), Parent(path))

\* C30: Cache.Contribute called when nothing is at the cache path makes the
\* layer directory and the parent of the cache path, makes the cache path a
\* symbolic link whose target is the layer path, leaves everything else as it
\* was and returns the layer with Cache = true
C30_CacheSymlink ==
    (output.op = "cacheContribute" /\ ~Exists(input.fs, input.path)) =>
        /\ output.ok <=> /\ input.fault = "none"
                         /\ CacheCanContribute(input.fs, input.path, input.layer)
        /\ output.ok =>
              /\ IsDirectory(output.fs, input.layer.path)
              /\ IsDirectory(output.fs, Parent(input.path))
              /\ Link(input.path, input.layer.path) \in output.fs
              /\ output.fs = MkdirAll(MkdirAll(input.fs, input.layer.path),
                                      Parent(input.path))
                                \cup {Link(input.path, input.layer.path)}
              /\ output.layer = [input.layer EXCEPT !.cache = TRUE]
              /\ output.log = "Creating cache directory"
        /\ ~output.ok => output.layer = ZeroLayer /\ ~Exists(output.fs, input.path)

\* a call on a tree with neither the layer directory nor the parent of the cache
\* path, for a layer that was no cache layer before
C30_Witness ==
    /\ output.op = "cacheContribute"
    /\ output.ok
    /\ input.fs = {}
    /\ Len(input.path) > 2
    /\ ~input.layer.cache

----------------------------------------------------------------------------
(* The build arguments.  A value is a string, modelled as its sequence of   *)
(* lexemes: " ", "\"" and the lexemes of words.                            *)

\* os.LookupEnv that takes an empty value for an unset key
LookupEnvNonEmpty(set, value) == [ok |-> set /\ value # <<>>, s |-> value]

\* os.LookupEnv(key)
LookupEnv(set, value) == [ok |-> set, s |-> IF set THEN value ELSE <<>>]

ArgumentsResult(op, ok, args) == [op |-> op, ok |-> ok, args |-> args]

\* ArgumentResolver.Resolve: default is DefaultArguments, a list of strings
ArgumentResolve(set, value, default) ==
    LET e == LookupEnv(set, value) IN
    IF e.ok
    THEN LET a == ShellWords(e.s) IN
         IF ~a.ok THEN ArgumentsResult("resolve.arguments", FALSE, <<>>)
         ELSE ArgumentsResult("resolve.arguments", TRUE, a.words)
    ELSE ArgumentsResult("resolve.arguments", TRUE, default)

\* libpak.ConfigurationResolver.Resolve(key): the value of the environment
\* when the key is set, the default of the buildpack configuration otherwise
ConfigurationResolve(set, value, default) ==
    LET e == LookupEnv(set, value) IN IF e.ok THEN e.s ELSE default

\* ResolveArguments: default is the default of the configuration, one string
ResolveArguments(set, value, default) ==
    LET w == ShellWords(ConfigurationResolve(set, value, default)) IN
    IF ~w.ok THEN ArgumentsResult("resolveArguments", FALSE, <<>>)
    ELSE ArgumentsResult("resolveArguments", TRUE, w.words)

MaxValueLen == 3

Lexemes == {Space, Quote, "test-argument-3", "test-argument-4"}

\* the values a user can give to the configuration key
ArgumentValues == UNION {[1..n -> Lexemes] : n \in 0..MaxValueLen}

\* DefaultArguments of the ArgumentResolver
DefaultArgumentLists ==
    {<<>>, <<<<"test-argument-1">>>>, <<<<"test-argument-1">>, <<"test-argument-2">>>>}

\* Default of the buildpack configuration
DefaultArgumentStrings ==
    {<<>>, <<"test-argument-1">>, <<"test-argument-1", Space, "test-argument-2">>,
     <<Quote, "test-argument-1", Space, "test-argument-2", Quote>>,
     <<Quote, "test-argument-1">>}

InitArguments ==
    /\ NoRun
    /\ input \in [op : {"resolve.arguments"}, set : BOOLEAN, value : ArgumentValues,
                  default : DefaultArgumentLists]
               \cup [op : {"resolveArguments"}, set : BOOLEAN, value : ArgumentValues,
                     default : DefaultArgumentStrings]
    /\ output = NoCall

\* one call of ArgumentResolver.Resolve
ArgumentResolveCall ==
    /\ input.op = "resolve.arguments"
    /\ output = NoCall
    /\ output' = ArgumentResolve(input.set, input.value, input.default)
    /\ UNCHANGED <<workspace, layer, cached, cacheJars, config, arguments, expected, bom,
                   pc, cacheHit, artifacts, idx, children, err, log, wsBuilt, bom0,
                   environment, input>>

\* one call of ResolveArguments
ResolveArgumentsCall ==
    /\ input.op = "resolveArguments"
    /\ output = NoCall
    /\ output' = ResolveArguments(input.set, input.value, input.default)
    /\ UNCHANGED <<workspace, layer, cached, cacheJars, config, arguments, expected, bom,
                   pc, cacheHit, artifacts, idx, children, err, log, wsBuilt, bom0,
                   environment, input>>

NextArguments == ArgumentResolveCall \/ ResolveArgumentsCall

SpecArguments == InitArguments /\ [][NextArguments]_vars

\* the number of quotes of string s
Quotes(s) == Cardinality({i \in 1..Len(s) : s[i] = Quote})

\* C31: the build arguments are the user-set value of the configuration key
\* split into shell words when the key is set, an empty value too, and the
\* default arguments otherwise; a value that cannot be split into shell
\* words, one with a quote left open, yields an error and no arguments
C31_Arguments ==
    /\ output.op = "resolve.arguments" =>
          IF input.set
          THEN /\ output.ok <=> Quotes(input.value) % 2 = 0
               /\ output.args = ShellWords(input.value).words
               /\ ~output.ok => output.args = <<>>
          ELSE output.ok /\ output.args = input.default
    /\ output.op = "resolveArguments" =>
          LET s == IF input.set THEN input.value ELSE input.default IN
          /\ output.ok <=> Quotes(s) % 2 = 0
          /\ output.args = ShellWords(s).words
          /\ ~output.ok => output.args = <<>>

\* a user-set value of two words where the defaults are other words
C31_Witness ==
    /\ output.op = "resolve.arguments"
    /\ input.set
    /\ input.default # <<>>
    /\ output.ok
    /\ Len(output.args) = 2

----------------------------------------------------------------------------
(* The three resolutions of the effective pattern.                         *)

\* the artifact value taken first and the module prefix applied to it
PatternEnvironmentArtifactFirst(cfg) ==
    LET first == IF cfg.artifactSet THEN cfg.artifactValue ELSE cfg.artifactDefault
    IN IF cfg.moduleSet THEN Join(cfg.moduleValue, first) ELSE first

\* ArtifactResolver.Resolve reading the environment: the default, prefixed by
\* the module when its key is set, then replaced by the artifact value when
\* its key is set
PatternEnvironment(cfg) ==
    LET default == cfg.artifactDefault
        prefixed == IF cfg.moduleSet THEN Join(cfg.moduleValue, default) ELSE default
    IN IF cfg.artifactSet THEN cfg.artifactValue ELSE prefixed

\* ArtifactResolver.Resolve reading the configuration resolver: the module
\* prefix is applied only when the artifact key is not set
PatternInline(cfg) ==
    LET a == ResolveKey(cfg, "artifact") IN
    IF ~a.ok
    THEN LET m == ResolveKey(cfg, "module") IN
         IF m.ok THEN Join(m.value, a.value) ELSE a.value
    ELSE a.value

\* the keys of the resolver: set or not, their values and the default
PatternConfigs ==
    { Cfg(aSet, aValue, aDefault, mSet, mValue) :
        aSet \in BOOLEAN, mSet \in BOOLEAN,
        aValue \in {<<>>, <<"a.jar">>, <<"*", Slash, "*.jar">>},
        aDefault \in {<<"*.jar">>, <<"*">>, <<"target", Slash, "*.jar">>, <<>>},
        mValue \in {<<"target">>, <<"target", Slash, "lib">>, <<>>} }

InitPattern ==
    /\ NoRun
    /\ input \in [op : {"pattern"}, cfg : PatternConfigs]
    /\ output = NoCall

\* the effective pattern as each of the three computes it
PatternCall ==
    /\ input.op = "pattern"
    /\ output = NoCall
    /\ output' = [op |-> "pattern",
                  environment |-> PatternEnvironment(input.cfg),
                  inline |-> PatternInline(input.cfg),
                  pattern |-> Pattern(input.cfg)]
    /\ UNCHANGED <<workspace, layer, cached, cacheJars, config, arguments, expected, bom,
                   pc, cacheHit, artifacts, idx, children, err, log, wsBuilt, bom0,
                   environment, input>>

NextPattern == PatternCall

SpecPattern == InitPattern /\ [][NextPattern]_vars

\* C38: for every combination of the artifact key set or not, the module key
\* set or not and the default pattern, the Resolve that reads the environment,
\* the Resolve that reads the configuration resolver and Pattern() yield the
\* same effective pattern: the artifact value when its key is set, otherwise
\* the default, below the module when the module key is set
C38_PatternsAgree ==
    output.op = "pattern" =>
        /\ output.environment = output.inline
        /\ output.inline = output.pattern
        /\ input.cfg.artifactSet => output.pattern = input.cfg.artifactValue
        /\ (~input.cfg.artifactSet /\ ~input.cfg.moduleSet) =>
              output.pattern = input.cfg.artifactDefault
        /\ (~input.cfg.artifactSet /\ input.cfg.moduleSet) =>
              output.pattern = Join(input.cfg.moduleValue, input.cfg.artifactDefault)

\* both keys set: the module prefix the first Resolve had applied is dropped
C38_Witness ==
    /\ output.op = "pattern"
    /\ input.cfg.artifactSet /\ input.cfg.moduleSet
    /\ input.cfg.moduleValue # <<>>
    /\ input.cfg.artifactValue # input.cfg.artifactDefault
    /\ output.environment = input.cfg.artifactValue

----------------------------------------------------------------------------
(* Cache.Contribute, called again.                                         *)

\* C39: Cache.Contribute is idempotent: a second call with the same cache path
\* and layer, when no system call fails, succeeds, returns the layer with
\* Cache = true and leaves the tree as the first call left it; a call that
\* finds anything at the cache path, whatever kind of entry, leaves that entry
\* as it is, does not point it at the layer path and still returns the layer
\* with Cache = true
C39_CacheIdempotent ==
    /\ output.op = "cacheContributeAgain" =>
          /\ output.second.ok <=> output.fault = "none"
          /\ output.second.fs = output.first.fs
          /\ output.second.ok =>
                /\ output.second.layer = [output.layer EXCEPT !.cache = TRUE]
                /\ output.second.log = "Cache already exists"
    /\ (output.op = "cacheContribute" /\ Exists(input.fs, input.path)) =>
          /\ output.ok <=> /\ input.fault = "none"
                           /\ CacheCanContribute(input.fs, input.path, input.layer)
          /\ Exists(output.fs, input.path)
          /\ Get(output.fs, input.path) = Get(input.fs, input.path)
          /\ output.ok =>
                /\ output.layer = [input.layer EXCEPT !.cache = TRUE]
                /\ output.log = "Cache already exists"

\* a second call after a first call that made the link, with the layer as it
\* was given to the first call
C39_Witness ==
    /\ output.op = "cacheContributeAgain"
    /\ output.second.ok
    /\ ~Exists(input.fs, input.path)
    /\ Link(input.path, input.layer.path) \in output.second.fs
    /\ ~output.layer.cache

====
